---- MODULE Spec2Model ----
(***************************************************************************)
(* Model of the edge-aware pixelation engine of pixel-mosaic:              *)
(*   src/src/gridOptimization.js  (grid, corner optimizer, renderGrid)     *)
(*   src/src/pixelate.js          (renderEdgeAwarePixels)                  *)
(*   src/src/edgeDetection.js     (calculateEdgeMap and its passes)        *)
(*                                                                         *)
(* Corner coordinates are real numbers in the program.  The model keeps    *)
(* them exactly, as integers in units of 1/Scale pixel.  Scores are exact  *)
(* rationals <<numerator, denominator>>.                                   *)
(***************************************************************************)
EXTENDS Integers, Sequences, FiniteSets, TLC

VARIABLES
    width,      \* image width  (imageData.width)
    height,     \* image height (imageData.height)
    gridSize,   \* the gridSize / pixelizationFactor argument
    grid,       \* the grid object {corners, cells, cols, rows}
    edgeMap,    \* the edge map computed or handed to the optimizer: [present, data]
    opts,       \* options of the running / last call
    pc,         \* position of the optimizer: "idle" or "loop"
    iteration,  \* loop variable of optimizeGridCorners
    row,        \* loop variable of optimizeGridCorners
    col,        \* loop variable of optimizeGridCorners
    before,     \* the grid as it was when the running / last call started
    calls,      \* number of optimizeGridCorners calls started
    passes,     \* corner visits made by the running / last call
    returned,   \* how the last call returned: "none", "invalid", "done", "edgeMap"
    image,      \* the source ImageData handed to a renderer: [width, height, data]
    renderArgs, \* the renderer that ran and its arguments
    output,     \* the ImageData a renderer returned: [width, height, data]
    sampled,    \* per block, the source pixels read to compute its colour
    writers,    \* per output pixel, the blocks that wrote it, in order
    painted,    \* per block, the bounds of the rectangle its fill loops cover
    edgeCounts, \* per edgeSharpness tried on the image, the number of edge pixels found
    gpuResult,  \* what calculateEdgeMapWebGL did in the last calculateEdgeMapStep
    usingGPU,   \* the usingGPU flag calculateEdgeMapStep returned
    buffers,    \* the pixel buffers and maps allocated so far, in order of allocation
    lastStage,  \* the stage called last: its name, its input buffers, its result
    stageCalls, \* number of stage calls made on the buffers
    pipeStage,  \* position of a pixelateImageEdgeAware run: the step done last
    pipeOptions, \* the options the pixelateImageEdgeAware run was called with
    splineCache, \* per cell, its _splineCache: NoCache or [polygon, bounds, splineDegree, splineSmoothness]
    lookup,     \* the last lookup made on the grid: the function, its arguments, its result
    lookups     \* number of lookups made on the grid

optVars == <<width, height, gridSize, grid, edgeMap, opts, pc, iteration,
             row, col, before, calls, passes, returned>>

renderVars == <<image, renderArgs, output, sampled, writers, painted>>

stepVars == <<gpuResult, usingGPU>>

heapVars == <<buffers, lastStage, stageCalls>>

pipeVars == <<pipeStage, pipeOptions>>

cellVars == <<splineCache, lookup, lookups>>

stageVars == <<edgeCounts, stepVars, heapVars, pipeVars, cellVars>>

vars == <<optVars, renderVars, stageVars>>

----------------------------------------------------------------------------
(* Bounds of the model *)

\* largest numIterations option tried
MaxIterations == 2
\* (width, height, gridSize) triples tried
Sizes == { <<3, 2, 1>>, <<4, 4, 2>>, <<5, 3, 2>> }
\* searchSteps options tried (9 is the default)
SearchStepsSet == {9, 25}
\* stepSize options tried (whole pixels)
StepSizes == {1, 2}
\* edgeSharpness options tried, in tenths: 0, 0.8 (the default), 1
SharpnessTenths == {0, 8, 10}

----------------------------------------------------------------------------
(* Arithmetic helpers *)

Max(a, b) == IF a >= b THEN a ELSE b
Min(a, b) == IF a <= b THEN a ELSE b
Abs(a) == IF a < 0 THEN -a ELSE a

RECURSIVE GCD(_, _)
GCD(a, b) == IF b = 0 THEN a ELSE GCD(b, a % b)

LCM(a, b) == (a * b) \div GCD(a, b)

RECURSIVE LCMUpTo(_)
LCMUpTo(n) == IF n <= 1 THEN 1 ELSE LCM(n, LCMUpTo(n - 1))

\* Math.ceil(a / b) for integers a >= 0, b > 0
CeilDiv(a, b) == (a + b - 1) \div b

\* Math.floor(Math.sqrt(n)) for an integer n >= 0
RECURSIVE FloorSqrtFrom(_, _)
FloorSqrtFrom(n, k) == IF (k + 1) * (k + 1) > n THEN k ELSE FloorSqrtFrom(n, k + 1)
FloorSqrt(n) == FloorSqrtFrom(n, 0)

\* exact rationals <<n, d>> with d > 0, kept in lowest terms
RatNorm(n, d) == LET g == GCD(Abs(n), d) IN IF g = 0 THEN <<0, 1>> ELSE <<n \div g, d \div g>>
RatAdd(p, q) == RatNorm(p[1] * q[2] + q[1] * p[2], p[2] * q[2])
RatGt(p, q) == p[1] * q[2] > q[1] * p[2]
RatZero == <<0, 1>>

----------------------------------------------------------------------------
(* Units of the corner coordinates *)

\* the iteration progress iteration / max(1, numIterations - 1) has a
\* denominator up to MaxIterations - 1
IterDen == LCMUpTo(Max(1, MaxIterations - 1))

\* the lattice positions col * width / cols have denominator cols
LatticeDen == LCMUpTo(3)

\* corner coordinates are whole multiples of 1 / Scale: a move is
\* (whole pixels) * damping, and damping is a multiple of 1 / (100 * IterDen)
Scale == 100 * IterDen * LatticeDen

----------------------------------------------------------------------------
(* AdaptiveGrid: GridCorner, GridCell, createInitialGrid *)

\* new GridCorner(x, y)
GridCorner(x, y) == [x |-> x, y |-> y, originalX |-> x, originalY |-> y]

\* new GridCell(corners) with cell._gridIndex; a corner reference is the
\* pair <<row, col>> of the shared corner object in grid.corners
GridCell(cornerRefs, gridIndex) == [corners |-> cornerRefs, gridIndex |-> gridIndex]

\* a lattice of whole-pixel steps: col * Math.floor(width / cols)
LatticeXWholeSteps(c, w, cols) == c * (w \div cols) * Scale

\* x of corner (row, col): (col * width) / cols, in 1/Scale pixels
LatticeX(c, w, cols) == (c * w * Scale) \div cols

\* y of corner (row, col): (row * height) / rows, in 1/Scale pixels
LatticeY(r, h, rows) == (r * h * Scale) \div rows

\* the four corners a new cell (row, col) references, in order
CellCornerRefs(r, c) == << <<r, c>>, <<r, c + 1>>, <<r + 1, c + 1>>, <<r + 1, c>> >>

createInitialGrid(w, h, s) ==
    LET cols == CeilDiv(w, s)
        rows == CeilDiv(h, s)
    IN [ corners |-> [r \in 1..(rows + 1) |->
                        [c \in 1..(cols + 1) |->
                            GridCorner(LatticeX(c - 1, w, cols), LatticeY(r - 1, h, rows))]],
         cells   |-> [i \in 1..(rows * cols) |->
                        GridCell(CellCornerRefs((i - 1) \div cols, (i - 1) % cols), i - 1)],
         cols    |-> cols,
         rows    |-> rows ]

\* corners[row][col] of a grid (row, col counted from 0 as in the source)
CornerAt(g, r, c) == g.corners[r + 1][c + 1]

----------------------------------------------------------------------------
(* Edge map lookups used by the optimizer *)

\* edgeMap[idx] || 0 : a read outside the array yields undefined
EdgeAt(data, idx) == IF idx >= 0 /\ idx < Len(data) THEN data[idx + 1] ELSE 0

\* getEdgeStrengthInterpolated(edgeMap, width, height, x, y, false) at the
\* point (xNum / den, yNum / den): clamp, Math.round, index
getEdgeStrengthInterpolated(data, w, h, xNum, yNum, den) ==
    LET x  == Max(0, Min((w - 1) * den, xNum))
        y  == Max(0, Min((h - 1) * den, yNum))
        px == (2 * x + den) \div (2 * den)
        py == (2 * y + den) \div (2 * den)
    IN EdgeAt(data, py * w + px)

\* Math.max(3, Math.ceil(length * 1.5)) where length = sqrt(q) / Scale
RECURSIVE NumSamplesFrom(_, _)
NumSamplesFrom(q, n) ==
    IF 4 * n * n * Scale * Scale >= 9 * q THEN n ELSE NumSamplesFrom(q, n + 1)
NumSamples(q) == NumSamplesFrom(q, 3)

\* number of TRUE entries of a sequence of booleans
RECURSIVE CountHits(_)
CountHits(hs) == IF hs = <<>> THEN 0
                 ELSE (IF Head(hs) THEN 1 ELSE 0) + CountHits(Tail(hs))

\* longest run of consecutive TRUE entries (maxConsecutiveHits)
RECURSIVE MaxRun(_, _, _)
MaxRun(hs, run, best) ==
    IF hs = <<>> THEN best
    ELSE IF Head(hs) THEN MaxRun(Tail(hs), run + 1, Max(best, run + 1))
         ELSE MaxRun(Tail(hs), 0, best)

\* evaluateEdgeAlignment for a straight segment (useSplines = false)
evaluateEdgeAlignment(data, w, h, x1, y1, x2, y2) ==
    LET dx == x2 - x1
        dy == y2 - y1
        q  == dx * dx + dy * dy
    IN IF q < Scale * Scale THEN RatZero
       ELSE
        LET numSamples == NumSamples(q)
            den  == numSamples * Scale
            hits == [i \in 1..(numSamples + 1) |->
                       LET xNum == x1 * numSamples + dx * (i - 1)
                           yNum == y1 * numSamples + dy * (i - 1)
                           clampedX == Max(0, Min((w - 1) * den, xNum))
                           clampedY == Max(0, Min((h - 1) * den, yNum))
                       IN getEdgeStrengthInterpolated(data, w, h, clampedX, clampedY, den) > 0]
            edgeHits == CountHits(hits)
            maxConsecutiveHits == MaxRun(hits, 0, 0)
            startOnEdge ==
                IF getEdgeStrengthInterpolated(data, w, h,
                       Max(0, Min((w - 1) * Scale, x1)),
                       Max(0, Min((h - 1) * Scale, y1)), Scale) > 0
                THEN 1 ELSE 0
        IN RatAdd(RatNorm(2 * edgeHits + 2 * maxConsecutiveHits, 5 * (numSamples + 1)),
                  RatNorm(startOnEdge, 5))

\* evaluateEdgeDensity(edgeMap, width, height, x, y, radius)
evaluateEdgeDensity(data, w, h, x, y, radius) ==
    LET inside == { d \in (-radius..radius) \X (-radius..radius) :
                      LET px == (x + d[1] * Scale) \div Scale
                          py == (y + d[2] * Scale) \div Scale
                      IN px >= 0 /\ px < w /\ py >= 0 /\ py < h }
        edges  == { d \in inside :
                      LET px == (x + d[1] * Scale) \div Scale
                          py == (y + d[2] * Scale) \div Scale
                      IN EdgeAt(data, py * w + px) > 0 }
    IN IF Cardinality(inside) > 0
       THEN RatNorm(Cardinality(edges), Cardinality(inside))
       ELSE RatZero

----------------------------------------------------------------------------
(* GridCornerOptimizer: optimizeGridCorners *)

\* variant of ValidEdgeMap: accepts a map that is too long
ValidEdgeMapLonger(em, w, h) == em.present /\ Len(em.data) >= w * h

\* if (!edgeMap || edgeMap.length !== width * height) return grid
ValidEdgeMap(em, w, h) == em.present /\ Len(em.data) = w * h

\* variant of LoopRows: the loop starts at row 0
LoopRowsFromZero(rows) == 0..(rows - 2)

\* the rows visited by "for (row = 1; row < rows - 1; row++)"
LoopRows(rows) == 1..(rows - 2)

\* the columns visited by "for (col = 1; col < cols - 1; col++)"
LoopCols(cols) == 1..(cols - 2)

\* connectedEdges of corner (r, c): top, bottom, left, right
connectedEdges(g, r, c) ==
    LET rows == Len(g.corners)
        cols == Len(g.corners[1])
    IN (IF r > 0 THEN << CornerAt(g, r - 1, c) >> ELSE <<>>)
       \o (IF r < rows - 1 THEN << CornerAt(g, r + 1, c) >> ELSE <<>>)
       \o (IF c > 0 THEN << CornerAt(g, r, c - 1) >> ELSE <<>>)
       \o (IF c < cols - 1 THEN << CornerAt(g, r, c + 1) >> ELSE <<>>)

\* sum of evaluateEdgeAlignment over the connected edges
RECURSIVE AlignmentSum(_, _, _, _, _, _)
AlignmentSum(data, w, h, x, y, nbrs) ==
    IF nbrs = <<>> THEN RatZero
    ELSE RatAdd(evaluateEdgeAlignment(data, w, h, x, y, Head(nbrs).x, Head(nbrs).y),
                AlignmentSum(data, w, h, x, y, Tail(nbrs)))

\* the score of a position: edge density plus alignment of every edge
PositionScore(data, w, h, x, y, nbrs, stepSize) ==
    RatAdd(evaluateEdgeDensity(data, w, h, x, y, stepSize),
           AlignmentSum(data, w, h, x, y, nbrs))

\* variant of Better: a tie replaces the current best
BetterOrEqual(alignment, bestAlignment) == ~RatGt(bestAlignment, alignment)

\* if (alignment > bestAlignment)
Better(alignment, bestAlignment) == RatGt(alignment, bestAlignment)

\* if (testX < 0 || testX >= width || testY < 0 || testY >= height) continue
InBounds(testX, testY, w, h) ==
    ~(testX < 0 \/ testX >= w * Scale \/ testY < 0 \/ testY >= h * Scale)

\* the (dx, dy) offsets of the search, in the order the two loops visit them
SearchOffsets(searchSteps) ==
    LET gridSz   == FloorSqrt(searchSteps)
        halfGrid == gridSz \div 2
        side     == 2 * halfGrid + 1
    IN [k \in 1..(side * side) |->
          << ((k - 1) % side) - halfGrid, ((k - 1) \div side) - halfGrid >>]

\* the search loop from offset k on; best = [x, y, alignment]
RECURSIVE SearchFrom(_, _, _, _, _, _, _, _, _)
SearchFrom(data, w, h, corner, nbrs, stepSize, offs, k, best) ==
    IF k > Len(offs) THEN best
    ELSE
      LET dx    == offs[k][1]
          dy    == offs[k][2]
          testX == corner.x + dx * stepSize * Scale
          testY == corner.y + dy * stepSize * Scale
      IN IF (dx = 0 /\ dy = 0) \/ ~InBounds(testX, testY, w, h)
         THEN SearchFrom(data, w, h, corner, nbrs, stepSize, offs, k + 1, best)
         ELSE
           LET alignment == PositionScore(data, w, h, testX, testY, nbrs, stepSize)
           IN IF Better(alignment, best.alignment)
              THEN SearchFrom(data, w, h, corner, nbrs, stepSize, offs, k + 1,
                              [x |-> testX, y |-> testY, alignment |-> alignment])
              ELSE SearchFrom(data, w, h, corner, nbrs, stepSize, offs, k + 1, best)

\* bestX, bestY after the search around a corner
BestPosition(data, w, h, corner, nbrs, o) ==
    SearchFrom(data, w, h, corner, nbrs, o.stepSize, SearchOffsets(o.searchSteps), 1,
               [x |-> corner.x, y |-> corner.y,
                alignment |-> PositionScore(data, w, h, corner.x, corner.y, nbrs, o.stepSize)])

\* damping = baseDamping + dampingRange * (1 - iterationProgress), as the
\* fraction DampingNum / DampingDen; edgeSharpness is given in tenths
DampingDen(numIterations) == 100 * Max(1, numIterations - 1)
\* variant of DampingNum: the damping factor is 1 higher
DampingNumAboveOne(sharp10, it, numIterations) ==
    LET m == Max(1, numIterations - 1)
    IN (130 + 5 * sharp10) * m + (20 - sharp10) * (m - it)
DampingNum(sharp10, it, numIterations) ==
    LET m == Max(1, numIterations - 1)
    IN (30 + 5 * sharp10) * m + (20 - sharp10) * (m - it)

\* variant of MoveCorner: the corner is replaced by a new GridCorner
MoveCornerAsNew(corner, bestX, bestY, num, den) ==
    GridCorner(corner.x + ((bestX - corner.x) * num) \div den,
               corner.y + ((bestY - corner.y) * num) \div den)

\* corner.x += deltaX * damping; corner.y += deltaY * damping
MoveCorner(corner, bestX, bestY, num, den) ==
    [corner EXCEPT !.x = corner.x + ((bestX - corner.x) * num) \div den,
                   !.y = corner.y + ((bestY - corner.y) * num) \div den]

\* one pass of the loop body for corner (r, c)
OptimizeOneCorner(g, data, w, h, o, it, r, c) ==
    LET corner == CornerAt(g, r, c)
        best   == BestPosition(data, w, h, corner, connectedEdges(g, r, c), o)
        moved  == MoveCorner(corner, best.x, best.y,
                             DampingNum(o.edgeSharpness, it, o.numIterations),
                             DampingDen(o.numIterations))
    IN [g EXCEPT !.corners[r + 1][c + 1] = moved]

\* the loop positions <<iteration, row, col>> of one call, in order
LoopPositions(g, o) ==
    LET rs == LoopRows(Len(g.corners))
        cs == LoopCols(Len(g.corners[1]))
    IN { <<i, r, c>> \in (0..(o.numIterations - 1)) \X rs \X cs : TRUE }

\* lexicographic order of the nested loops
LoopBefore(p, q) ==
    \/ p[1] < q[1]
    \/ p[1] = q[1] /\ p[2] < q[2]
    \/ p[1] = q[1] /\ p[2] = q[2] /\ p[3] < q[3]

\* the positions still to visit after position p
LoopAfter(g, o, p) == { q \in LoopPositions(g, o) : LoopBefore(p, q) }

\* the least position of a non-empty set of positions
LoopFirst(S) == CHOOSE p \in S : \A q \in S : q = p \/ LoopBefore(p, q)

----------------------------------------------------------------------------
(* Inputs of the optimizer *)

\* a binary edge map of w * h entries with 1 exactly at the pixels of S
EdgeMapOf(w, h, S) == [i \in 1..(w * h) |-> IF (i - 1) \in S THEN 1 ELSE 0]

\* edge maps tried: no edge, one vertical line, one horizontal line, one pixel
EdgePixelSets(w, h) ==
    { {} }
    \cup { { i \in 0..(w * h - 1) : i % w = x } : x \in 0..(w - 1) }
    \cup { { i \in 0..(w * h - 1) : i \div w = y } : y \in 0..(h - 1) }
    \cup { {i} : i \in 0..(w * h - 1) }

\* well-formed edge maps, and the ones the validation rejects: a missing
\* map (null), a map one entry short and a map one entry long
EdgeMaps(w, h) ==
    { [present |-> TRUE, data |-> EdgeMapOf(w, h, S)] : S \in EdgePixelSets(w, h) }
    \cup { [present |-> FALSE, data |-> <<>>] }
    \cup { [present |-> TRUE, data |-> SubSeq(EdgeMapOf(w, h, {0, 1, w}), 1, w * h - 1)] }
    \cup { [present |-> TRUE, data |-> Append(EdgeMapOf(w, h, {0, 1, w}), 1)] }

\* option records tried
OptionSets ==
    [ searchSteps   : SearchStepsSet,
      numIterations : 1..MaxIterations,
      stepSize      : StepSizes,
      edgeSharpness : SharpnessTenths ]

\* the defaults of optimizeGridCorners: 9, 2, 1.0, 0.8
DefaultOptions ==
    [searchSteps |-> 9, numIterations |-> 2, stepSize |-> 1, edgeSharpness |-> 8]

----------------------------------------------------------------------------
(* The optimizer as a state machine *)

\* no renderer runs in this specification
RenderUnused ==
    /\ image = [width |-> 0, height |-> 0, data |-> <<>>]
    /\ renderArgs = [renderer |-> "none"]
    /\ output = [width |-> 0, height |-> 0, data |-> <<>>]
    /\ sampled = <<>>
    /\ writers = <<>>
    /\ painted = <<>>

\* no cell has a cache and no lookup was made
CellsUnused ==
    /\ splineCache = <<>>
    /\ lookup = [fn |-> "none"]
    /\ lookups = 0

\* no pipeline stage other than the optimizer runs in this specification
StagesUnused ==
    /\ edgeCounts = {}
    /\ gpuResult = [kind |-> "none"]
    /\ usingGPU = FALSE
    /\ buffers = <<>>
    /\ lastStage = [stage |-> "none"]
    /\ stageCalls = 0
    /\ pipeStage = "none"
    /\ pipeOptions = [pixelizationFactor |-> 0]
    /\ CellsUnused

Init ==
    /\ StagesUnused
    /\ \E sz \in Sizes :
         /\ width = sz[1]
         /\ height = sz[2]
         /\ gridSize = sz[3]
         /\ grid = createInitialGrid(sz[1], sz[2], sz[3])
         /\ edgeMap \in EdgeMaps(sz[1], sz[2])
    /\ opts = DefaultOptions
    /\ pc = "idle"
    /\ iteration = 0
    /\ row = 0
    /\ col = 0
    /\ before = grid
    /\ calls = 0
    /\ passes = 0
    /\ returned = "none"
    /\ RenderUnused

\* optimizeGridCorners(grid, edgeMap, width, height, options): entry,
\* validation of the edge map and entry into the loops; the options are
\* drawn from optionSets, and at most maxCalls calls are made
OptimizeCallFrom(optionSets, maxCalls) ==
    /\ pc = "idle"
    /\ calls < maxCalls
    /\ \E o \in optionSets :
         /\ opts' = o
         /\ IF ~ValidEdgeMap(edgeMap, width, height)
            THEN /\ returned' = "invalid"
                 /\ UNCHANGED <<pc, iteration, row, col>>
            ELSE IF LoopPositions(grid, o) = {}
            THEN /\ returned' = "done"
                 /\ UNCHANGED <<pc, iteration, row, col>>
            ELSE LET p == LoopFirst(LoopPositions(grid, o))
                 IN /\ pc' = "loop"
                    /\ iteration' = p[1]
                    /\ row' = p[2]
                    /\ col' = p[3]
                    /\ returned' = "none"
    /\ before' = grid
    /\ calls' = calls + 1
    /\ passes' = 0
    /\ UNCHANGED <<width, height, gridSize, grid, edgeMap>>
    /\ UNCHANGED renderVars
    /\ UNCHANGED stageVars

\* one call, with any of the option records tried
OptimizeCall == OptimizeCallFrom(OptionSets, 1)

\* one execution of the loop body, for corner (row, col) in pass iteration,
\* followed by the loop increments; the call returns after the last one
OptimizeCorner ==
    /\ pc = "loop"
    /\ grid' = OptimizeOneCorner(grid, edgeMap.data, width, height, opts, iteration, row, col)
    /\ passes' = passes + 1
    /\ LET rest == LoopAfter(grid, opts, <<iteration, row, col>>)
       IN IF rest = {}
          THEN /\ pc' = "idle"
               /\ returned' = "done"
               /\ UNCHANGED <<iteration, row, col>>
          ELSE LET p == LoopFirst(rest)
               IN /\ iteration' = p[1]
                  /\ row' = p[2]
                  /\ col' = p[3]
                  /\ UNCHANGED <<pc, returned>>
    /\ UNCHANGED <<width, height, gridSize, edgeMap, opts, before, calls>>
    /\ UNCHANGED renderVars
    /\ UNCHANGED stageVars

Next == OptimizeCall \/ OptimizeCorner

Spec == Init /\ [][Next]_vars

----------------------------------------------------------------------------
(* Geometry of a cell, used to state the claims about the optimizer *)

\* the corner objects of a cell, through its references into grid.corners
CellCorners(g, cell) == [k \in 1..4 |-> CornerAt(g, cell.corners[k][1], cell.corners[k][2])]

\* twice the signed area of triangle o, a, b
Cross(o, a, b) == (a.x - o.x) * (b.y - o.y) - (a.y - o.y) * (b.x - o.x)

Sign(v) == IF v > 0 THEN 1 ELSE IF v < 0 THEN -1 ELSE 0

\* r lies in the bounding box of segment p q
OnSegment(p, q, r) ==
    /\ Min(p.x, q.x) <= r.x /\ r.x <= Max(p.x, q.x)
    /\ Min(p.y, q.y) <= r.y /\ r.y <= Max(p.y, q.y)

\* the closed segments p1 p2 and p3 p4 have a point in common
SegmentsIntersect(p1, p2, p3, p4) ==
    LET d1 == Sign(Cross(p3, p4, p1))
        d2 == Sign(Cross(p3, p4, p2))
        d3 == Sign(Cross(p1, p2, p3))
        d4 == Sign(Cross(p1, p2, p4))
    IN \/ d1 # d2 /\ d3 # d4
       \/ d1 = 0 /\ OnSegment(p3, p4, p1)
       \/ d2 = 0 /\ OnSegment(p3, p4, p2)
       \/ d3 = 0 /\ OnSegment(p1, p2, p3)
       \/ d4 = 0 /\ OnSegment(p1, p2, p4)

\* twice the signed area of the quadrilateral q[1] q[2] q[3] q[4]
QuadArea2(q) ==
    (q[1].x * q[2].y - q[2].x * q[1].y) + (q[2].x * q[3].y - q[3].x * q[2].y)
    + (q[3].x * q[4].y - q[4].x * q[3].y) + (q[4].x * q[1].y - q[1].x * q[4].y)

\* zero area, or two opposite sides touch or cross
Degenerate(q) ==
    \/ QuadArea2(q) = 0
    \/ SegmentsIntersect(q[1], q[2], q[3], q[4])
    \/ SegmentsIntersect(q[2], q[3], q[4], q[1])

IsBorder(g, r, c) == r = 0 \/ r = g.rows \/ c = 0 \/ c = g.cols

CornerIds(g) == (0..g.rows) \X (0..g.cols)

SamePosition(a, b) == a.x = b.x /\ a.y = b.y

\* some corner of the grid is not where it was when the call started
SomeCornerMoved ==
    \E id \in CornerIds(grid) :
        ~SamePosition(CornerAt(grid, id[1], id[2]), CornerAt(before, id[1], id[2]))

AllZero(data) == \A i \in 1..Len(data) : data[i] = 0

----------------------------------------------------------------------------
(* Claims about optimizeGridCorners *)

\* C1: during and after optimizeGridCorners every border corner (row 0,
\* last row, column 0, last column) has the x and y it had before the call.
C1_BorderCornersFixed ==
    \A id \in CornerIds(grid) :
        IsBorder(grid, id[1], id[2]) =>
            SamePosition(CornerAt(grid, id[1], id[2]), CornerAt(before, id[1], id[2]))

\* C1 witness: a call has returned after moving an interior corner.
C1_Witness == returned = "done" /\ passes > 0 /\ SomeCornerMoved

\* C2: after a run of optimizeGridCorners on a grid built by
\* createInitialGrid every cell is a non-degenerate quadrilateral.
C2_CellsNonDegenerate ==
    returned = "done" =>
        \A i \in 1..Len(grid.cells) : ~Degenerate(CellCorners(grid, grid.cells[i]))

\* C3: with an all-zero edge map every corner stays at its original lattice
\* position, whatever the options.
C3_ZeroMapNoMove ==
    (edgeMap.present /\ Len(edgeMap.data) = width * height /\ AllZero(edgeMap.data)) =>
        \A id \in CornerIds(grid) :
            LET c == CornerAt(grid, id[1], id[2])
            IN c.x = c.originalX /\ c.y = c.originalY

\* C3 witness: a call on an all-zero edge map has visited corners and returned.
C3_Witness ==
    /\ returned = "done" /\ passes > 0
    /\ edgeMap.present /\ Len(edgeMap.data) = width * height /\ AllZero(edgeMap.data)

\* C4: a call with a missing edge map, or one whose length is not
\* width * height, returns at once with the grid as it was.
C4_InvalidMapUnchanged ==
    (calls > 0 /\ (~edgeMap.present \/ Len(edgeMap.data) # width * height)) =>
        (pc = "idle" /\ passes = 0 /\ returned = "invalid" /\ grid = before)

\* C4 witness: a call with a wrong-length edge map that contains edges has
\* returned.
C4_Witness ==
    /\ returned = "invalid" /\ calls > 0
    /\ edgeMap.present /\ Len(edgeMap.data) # width * height /\ ~AllZero(edgeMap.data)

\* C5: optimizeGridCorners changes only x and y of corners: rows, cols, the
\* corner lattice, the cells and their corner references, and every
\* corner's originalX / originalY stay as they were.
C5_TopologyKept ==
    /\ grid.rows = before.rows
    /\ grid.cols = before.cols
    /\ Len(grid.corners) = before.rows + 1
    /\ \A r \in 1..Len(grid.corners) : Len(grid.corners[r]) = before.cols + 1
    /\ grid.cells = before.cells
    /\ \A id \in CornerIds(before) :
          /\ CornerAt(grid, id[1], id[2]).originalX = CornerAt(before, id[1], id[2]).originalX
          /\ CornerAt(grid, id[1], id[2]).originalY = CornerAt(before, id[1], id[2]).originalY

\* C5 witness: a call has returned and moved a corner of a grid with cells.
C5_Witness == returned = "done" /\ SomeCornerMoved /\ Len(grid.cells) > 1

----------------------------------------------------------------------------
(* IEEE-754 double arithmetic of the block bounds                           *)
(*                                                                          *)
(* blockWidth = width / cols and col * blockWidth are rounded to 53         *)
(* significant bits.  A double is [bits, exp]: bits is the significand,     *)
(* most significant bit first, and the value is 0.bits * 2^exp.  Zero has   *)
(* bits = <<>>.                                                             *)

\* significand length of a double
SignificandBits == 53

\* digits per limb in the multiplication
LimbBits == 15

\* 2^n
RECURSIVE Pow2(_)
Pow2(n) == IF n = 0 THEN 1 ELSE 2 * Pow2(n - 1)

\* 2^n mod d, as the cube of 2^(n \div 3) times what is left of 2^n
Pow2Mod(n, d) ==
    LET third == (2 ^ (n \div 3)) % d
    IN ((((third * third) % d) * third) % d * 2 ^ (n % 3)) % d

\* binary digits of a natural number, most significant first
RECURSIVE BitsOfNat(_)
BitsOfNat(n) == IF n = 0 THEN <<>> ELSE Append(BitsOfNat(n \div 2), n % 2)

\* the natural number with the given binary digits (at most 30 of them)
RECURSIVE NatOfBits(_)
NatOfBits(bits) ==
    IF bits = <<>> THEN 0
    ELSE 2 * NatOfBits(SubSeq(bits, 1, Len(bits) - 1)) + bits[Len(bits)]

\* bits without its leading zeros
StripZeros(bits) ==
    IF \A i \in 1..Len(bits) : bits[i] = 0 THEN <<>>
    ELSE LET first == CHOOSE i \in 1..Len(bits) :
                         bits[i] = 1 /\ \A j \in 1..(i - 1) : bits[j] = 0
         IN SubSeq(bits, first, Len(bits))

\* bits + 1 as <<bits, carry out>>
IncBits(bits) ==
    IF \A i \in 1..Len(bits) : bits[i] = 1
    THEN << [i \in 1..Len(bits) |-> 0], 1 >>
    ELSE LET last == CHOOSE i \in 1..Len(bits) :
                        bits[i] = 0 /\ \A j \in (i + 1)..Len(bits) : bits[j] = 1
         IN << [i \in 1..Len(bits) |->
                  IF i < last THEN bits[i] ELSE IF i = last THEN 1 ELSE 0], 0 >>

\* round-to-nearest-even of 0.bits * 2^exp (plus a non-zero tail if sticky)
RoundDouble(bits, exp, sticky) ==
    LET p == SignificandBits
    IN IF Len(bits) <= p
       THEN [bits |-> bits, exp |-> exp]
       ELSE
         LET keep  == SubSeq(bits, 1, p)
             guard == bits[p + 1]
             tail  == sticky \/ \E i \in (p + 2)..Len(bits) : bits[i] = 1
         IN IF guard = 1 /\ (tail \/ keep[p] = 1)
            THEN LET r == IncBits(keep)
                 IN IF r[2] = 1
                    THEN [bits |-> <<1>> \o SubSeq(r[1], 1, p - 1), exp |-> exp + 1]
                    ELSE [bits |-> r[1], exp |-> exp]
            ELSE [bits |-> keep, exp |-> exp]

\* k binary digits of the fraction r / d (0 <= r < d), and the remainder:
\* after i digits the remainder is (r * 2^i) mod d
LongDivision(r, d, k) ==
    << [i \in 1..k |-> IF 2 * ((r * Pow2Mod(i - 1, d)) % d) >= d THEN 1 ELSE 0],
       (r * Pow2Mod(k, d)) % d >>

\* skip the zero digits that lead the fraction r / d (0 < r < d)
RECURSIVE SkipZeros(_, _, _)
SkipZeros(r, d, z) == IF 2 * r >= d THEN <<r, z>> ELSE SkipZeros(2 * r, d, z + 1)

\* the double a / b for naturals a, b with b > 0
FloatDiv(a, b) ==
    IF a = 0 THEN [bits |-> <<>>, exp |-> 0]
    ELSE
      LET ib == BitsOfNat(a \div b)
          r  == a % b
      IN IF ib # <<>>
         THEN LET fb == LongDivision(r, b, SignificandBits + 1 - Len(ib))
              IN RoundDouble(ib \o fb[1], Len(ib), fb[2] # 0)
         ELSE LET sk == SkipZeros(r, b, 0)
                  fb == LongDivision(sk[1], b, SignificandBits + 1)
              IN RoundDouble(fb[1], -sk[2], fb[2] # 0)

\* the limbs of LimbBits digits of a significand, most significant first
\* (the first limb is padded with zeros on the left)
Limbs(bits) ==
    LET n   == CeilDiv(Len(bits), LimbBits)
        pad == n * LimbBits - Len(bits)
        padded == [i \in 1..(n * LimbBits) |-> IF i <= pad THEN 0 ELSE bits[i - pad]]
    IN [k \in 1..n |-> NatOfBits(SubSeq(padded, (k - 1) * LimbBits + 1, k * LimbBits))]

\* the LimbBits digits of one limb
LimbDigits(v) == [j \in 1..LimbBits |-> (v \div Pow2(LimbBits - j)) % 2]

\* flatten a sequence of limbs into digits
RECURSIVE LimbsToBits(_)
LimbsToBits(ls) ==
    IF ls = <<>> THEN <<>> ELSE LimbDigits(Head(ls)) \o LimbsToBits(Tail(ls))

\* c * limbs with carry, from the least significant limb; <<limbs, carry>>
RECURSIVE MulLimbs(_, _)
MulLimbs(ls, c) ==
    IF ls = <<>> THEN << <<>>, 0 >>
    ELSE LET low == MulLimbs(Tail(ls), c)
             t   == Head(ls) * c + low[2]
         IN << <<t % Pow2(LimbBits)>> \o low[1], t \div Pow2(LimbBits) >>

\* the double c * f for a natural c < 2^15
FloatMulNat(f, c) ==
    IF c = 0 \/ f.bits = <<>> THEN [bits |-> <<>>, exp |-> 0]
    ELSE LET m    == MulLimbs(Limbs(f.bits), c)
             full == StripZeros(BitsOfNat(m[2]) \o LimbsToBits(m[1]))
         IN RoundDouble(full, f.exp + (Len(full) - Len(f.bits)), FALSE)

\* Math.floor of a non-negative double
FloatFloor(f) ==
    IF f.bits = <<>> \/ f.exp <= 0 THEN 0
    ELSE NatOfBits(SubSeq(f.bits, 1, Min(f.exp, Len(f.bits))))

----------------------------------------------------------------------------
(* ImageData and colours *)

\* a zero-filled pixel of new ImageData(width, height)
Transparent == [r |-> 0, g |-> 0, b |-> 0, a |-> 0]

\* the pixel (x, y) of an ImageData: data[(y * width + x) * 4 ...]
PixelAt(img, x, y) == img.data[y * img.width + x + 1]

\* Math.round(a / b) for a >= 0, b > 0
RoundDiv(a, b) == (2 * a + b) \div (2 * b)

\* f[lo] + ... + f[hi]
RECURSIVE SumRange(_, _, _)
SumRange(f, lo, hi) ==
    IF lo > hi THEN 0
    ELSE IF lo = hi THEN f[lo]
    ELSE LET mid == (lo + hi) \div 2
         IN SumRange(f, lo, mid) + SumRange(f, mid + 1, hi)

\* the channel-wise rounded mean of a non-empty sequence of colours
MeanColor(cs) ==
    LET n == Len(cs)
    IN [r |-> RoundDiv(SumRange([i \in 1..n |-> cs[i].r], 1, n), n),
        g |-> RoundDiv(SumRange([i \in 1..n |-> cs[i].g], 1, n), n),
        b |-> RoundDiv(SumRange([i \in 1..n |-> cs[i].b], 1, n), n),
        a |-> RoundDiv(SumRange([i \in 1..n |-> cs[i].a], 1, n), n)]

\* element k (counted from 0) of the stable sort of cs by key: the element
\* with exactly k elements before it in the sorted order
SortedAt(cs, key, k) ==
    LET n == Len(cs)
        rank(i) == Cardinality({ j \in 1..n : key[j] < key[i] \/ (key[j] = key[i] /\ j < i) })
    IN cs[CHOOSE i \in 1..n : rank(i) = k]

\* Math.round(avg * (1 - t) + mid * t) per channel, t = num / den
BlendColor(avg, mid, num, den) ==
    [r |-> RoundDiv(avg.r * (den - num) + mid.r * num, den),
     g |-> RoundDiv(avg.g * (den - num) + mid.g * num, den),
     b |-> RoundDiv(avg.b * (den - num) + mid.b * num, den),
     a |-> RoundDiv(avg.a * (den - num) + mid.a * num, den)]


----------------------------------------------------------------------------
(* CellColorSampler and MosaicRenderer: renderGrid *)

\* an array filled once: every element is computed when the array is built
Stored(seq) == seq \o <<>>

\* blockWidth = width / cols, blockHeight = height / rows, as doubles
BlockSize(size, n) == FloatDiv(size, n)

\* the double k * blockSize: col * blockWidth, row * blockHeight
BlockEdge(k, blockSize) == FloatMulNat(blockSize, k)

\* Math.floor(k * (size / n)) for k = 0..n, stored at index k + 1: the floors
\* of col * blockW (row * blockH) that both sampleUniformRect and
\* renderGridAsRectangles take of the same doubles
BlockBounds(size, n) ==
    LET blockSize == BlockSize(size, n)
    IN Stored([k \in 1..(n + 1) |-> FloatFloor(BlockEdge(k - 1, blockSize))])

\* a sampler whose rectangle includes the column and row at its end bounds
SampleRectInclusive(img, fx0, fy0, fx1, fy1) ==
    [startX |-> Max(0, fx0),
     startY |-> Max(0, fy0),
     endX   |-> Min(img.width, fx1 + 1),
     endY   |-> Min(img.height, fy1 + 1)]

\* the clamped integer rectangle sampleUniformRect reads; fx0, fy0, fx1, fy1
\* are Math.floor of the doubles it is given
SampleRect(img, fx0, fy0, fx1, fy1) ==
    [startX |-> Max(0, fx0),
     startY |-> Max(0, fy0),
     endX   |-> Min(img.width, fx1),
     endY   |-> Min(img.height, fy1)]

\* step = Math.max(1, Math.floor(Math.min(rw / 6, rh / 6, 4)))
SampleStep(rect) ==
    Max(1, Min(Min((rect.endX - rect.startX) \div 6, (rect.endY - rect.startY) \div 6), 4))

\* the pixels sampleUniformRect reads, in loop order (y outer, x inner)
SamplePoints(rect) ==
    IF rect.endX <= rect.startX \/ rect.endY <= rect.startY THEN <<>>
    ELSE LET step == SampleStep(rect)
             nx   == CeilDiv(rect.endX - rect.startX, step)
             ny   == CeilDiv(rect.endY - rect.startY, step)
         IN Stored([k \in 1..(nx * ny) |->
                      << rect.startX + ((k - 1) % nx) * step,
                         rect.startY + ((k - 1) \div nx) * step >>])

\* the fallback colour of an empty rectangle
Grey == [r |-> 128, g |-> 128, b |-> 128, a |-> 255]

\* sampleUniformRect(imageData, x0, y0, x1, y1, sharpness) on the rectangle
\* rect == SampleRect(...); sharpness in tenths
sampleUniformRect(img, rect, sharp10) ==
    LET pts == SamplePoints(rect)
        n   == Len(pts)
        samples == Stored([k \in 1..n |-> PixelAt(img, pts[k][1], pts[k][2])])
    IN IF n = 0 THEN Grey
       ELSE LET avg == MeanColor(samples)
            IN IF sharp10 = 0 THEN avg
               ELSE LET mid == SortedAt(samples,
                                  Stored([k \in 1..n |-> samples[k].r + samples[k].g + samples[k].b]),
                                  n \div 2)
                    IN BlendColor(avg, mid, sharp10, 10)

\* a cell sampler that reads the bounding box of the cell's corners
CellSampleRectOfCorners(g, img, xb, yb, i) ==
    LET q == [k \in 1..4 |-> g.corners[g.cells[i].corners[k][1] + 1][g.cells[i].corners[k][2] + 1]]
    IN SampleRect(img,
                  Min(Min(q[1].x, q[2].x), Min(q[3].x, q[4].x)) \div Scale,
                  Min(Min(q[1].y, q[2].y), Min(q[3].y, q[4].y)) \div Scale,
                  (Max(Max(q[1].x, q[2].x), Max(q[3].x, q[4].x)) + Scale - 1) \div Scale,
                  (Max(Max(q[1].y, q[2].y), Max(q[3].y, q[4].y)) + Scale - 1) \div Scale)

\* the rectangle sampled for cell i = row * cols + col + 1: renderGrid passes
\* x0 = col * blockW, y0 = row * blockH, x1 = (col + 1) * blockW,
\* y1 = (row + 1) * blockH
CellSampleRect(g, img, xb, yb, i) ==
    LET r == (i - 1) \div g.cols
        c == (i - 1) % g.cols
    IN SampleRect(img, xb[c + 1], yb[r + 1], xb[c + 2], yb[r + 2])

\* cellColors of renderGrid, indexed by row * cols + col + 1
CellColors(g, img, xb, yb, sharp10) ==
    Stored([i \in 1..(g.rows * g.cols) |->
              sampleUniformRect(img, CellSampleRect(g, img, xb, yb, i), sharp10)])

\* the source pixels read for each cell by renderGrid
CellSamples(g, img, xb, yb) ==
    Stored([i \in 1..(g.rows * g.cols) |->
              LET pts == SamplePoints(CellSampleRect(g, img, xb, yb, i))
              IN { pts[k] : k \in 1..Len(pts) }])

\* the block bounds of renderGridAsRectangles for cell i = row * cols + col + 1
PaintRect(g, xb, yb, i) ==
    LET r == (i - 1) \div g.cols
        c == (i - 1) % g.cols
    IN [startX |-> xb[c + 1], endX |-> xb[c + 2],
        startY |-> yb[r + 1], endY |-> yb[r + 2]]

\* for each coordinate v = 0..size-1 (at index v + 1), the blocks k = 0..n-1
\* of one axis whose fill loop "for (v = start; v < end && v < size; v++)"
\* reaches v, in loop order
AxisWriters(starts, ends, n, size) ==
    Stored([v \in 1..size |->
              SelectSeq([k \in 1..n |-> k - 1],
                        LAMBDA k : starts[k + 1] <= v - 1 /\ v - 1 < ends[k + 1])])

\* per pixel (index y * width + x + 1), the blocks row * ncols + col + 1 that
\* write it, in the order of the loops (row outer, col inner)
BlockWriters(rowsOf, colsOf, ncols, w, h) ==
    Stored([k \in 1..(w * h) |->
              LET rs == rowsOf[((k - 1) \div w) + 1]
                  cs == colsOf[((k - 1) % w) + 1]
              IN [j \in 1..(Len(rs) * Len(cs)) |->
                    rs[((j - 1) \div Len(cs)) + 1] * ncols + cs[((j - 1) % Len(cs)) + 1] + 1]])

\* per pixel, the cells whose block renderGridAsRectangles fills over it
GridWriters(g, img, xb, yb) ==
    BlockWriters(AxisWriters(yb, Tail(yb), g.rows, img.height),
                 AxisWriters(xb, Tail(xb), g.cols, img.width),
                 g.cols, img.width, img.height)

\* outputData[idx..idx+3] = color.r, color.g, color.b, 255
PaintedColor(color) == [r |-> color.r, g |-> color.g, b |-> color.b, a |-> 255]

\* renderGridAsRectangles(grid, imageData, cellColors), with the pixels'
\* writers ws == GridWriters(...): a pixel no block writes keeps the zeros of
\* new ImageData, any other holds what its last writer stored
renderGridAsRectangles(g, img, cellColors, ws) ==
    [width  |-> img.width,
     height |-> img.height,
     data   |-> [k \in 1..(img.width * img.height) |->
                   IF ws[k] = <<>> THEN Transparent
                   ELSE PaintedColor(cellColors[ws[k][Len(ws[k])]])]]

\* renderGrid(grid, imageData, edgeMap, edgeSharpness): the image returned,
\* the source pixels read per cell and the cells writing each pixel
renderGrid(g, img, sharp10) ==
    LET xb == BlockBounds(img.width, g.cols)
        yb == BlockBounds(img.height, g.rows)
        ws == GridWriters(g, img, xb, yb)
    IN [output  |-> renderGridAsRectangles(g, img, CellColors(g, img, xb, yb, sharp10), ws),
        sampled |-> CellSamples(g, img, xb, yb),
        writers |-> ws,
        painted |-> Stored([i \in 1..(g.rows * g.cols) |-> PaintRect(g, xb, yb, i)])]

----------------------------------------------------------------------------
(* Edge-gated block renderer: renderEdgeAwarePixels (pixelate.js) *)

\* getAverageColor(colors)
getAverageColor(colors) == MeanColor(colors)

\* getMedianColor(colors): luminance-sorted median; the luminance
\* 0.299 r + 0.587 g + 0.114 b is compared in thousandths
getMedianColor(colors) ==
    IF Len(colors) = 0 THEN [r |-> 0, g |-> 0, b |-> 0, a |-> 255]
    ELSE IF Len(colors) = 1 THEN colors[1]
    ELSE SortedAt(colors,
                  Stored([k \in 1..Len(colors) |->
                            299 * colors[k].r + 587 * colors[k].g + 114 * colors[k].b]),
                  Len(colors) \div 2)

\* the block origins of one axis: 0, pixelSize, 2 * pixelSize, ... < size
BlockStarts(size, pixelSize) ==
    Stored([k \in 1..CeilDiv(size, pixelSize) |-> (k - 1) * pixelSize])

\* blockEnd = Math.min(block + pixelSize, size) for each origin
BlockEnds(size, pixelSize) ==
    Stored([k \in 1..CeilDiv(size, pixelSize) |-> Min((k - 1) * pixelSize + pixelSize, size)])

\* the blocks of the two block loops, as <<blockX, blockY>>, in loop order
EdgeAwareBlocks(img, pixelSize) ==
    LET nx == CeilDiv(img.width, pixelSize)
        ny == CeilDiv(img.height, pixelSize)
    IN Stored([k \in 1..(nx * ny) |->
                 << ((k - 1) % nx) * pixelSize, ((k - 1) \div nx) * pixelSize >>])

\* the pixels of the block at (blockX, blockY), in loop order
BlockPixels(img, pixelSize, blockX, blockY) ==
    LET blockEndX == Min(blockX + pixelSize, img.width)
        blockEndY == Min(blockY + pixelSize, img.height)
        bw == blockEndX - blockX
        bh == blockEndY - blockY
    IN Stored([k \in 1..(bw * bh) |->
                 << blockX + ((k - 1) % bw), blockY + ((k - 1) \div bw) >>])

\* blockColor of one block; edge strengths and edgeSharpness are in tenths
BlockColor(img, em, pixelSize, sharp10, blockX, blockY) ==
    LET pts    == BlockPixels(img, pixelSize, blockX, blockY)
        colors == Stored([k \in 1..Len(pts) |-> PixelAt(img, pts[k][1], pts[k][2])])
        edges  == { EdgeAt(em, pts[k][2] * img.width + pts[k][1]) : k \in 1..Len(pts) }
        hasEdge == \E e \in edges : e > 0
        edgeStrength == CHOOSE e \in edges \cup {0} : \A f \in edges \cup {0} : f <= e
    IN IF hasEdge /\ sharp10 > 0
       THEN IF sharp10 >= 10
            THEN getMedianColor(colors)
            ELSE BlendColor(getAverageColor(colors), getMedianColor(colors),
                            sharp10 * edgeStrength, 100)
       ELSE getAverageColor(colors)

\* a fill loop that keeps the alpha of the source pixel
FillColorSourceAlpha(blockColor, sourcePixel) == [blockColor EXCEPT !.a = sourcePixel.a]

\* the value the fill loop stores at a pixel of the block
FillColor(blockColor, sourcePixel) == blockColor

\* per pixel, the blocks (indices into EdgeAwareBlocks) whose fill loop
\* writes it
EdgeAwareWriters(img, pixelSize) ==
    BlockWriters(AxisWriters(BlockStarts(img.height, pixelSize), BlockEnds(img.height, pixelSize),
                             CeilDiv(img.height, pixelSize), img.height),
                 AxisWriters(BlockStarts(img.width, pixelSize), BlockEnds(img.width, pixelSize),
                             CeilDiv(img.width, pixelSize), img.width),
                 CeilDiv(img.width, pixelSize), img.width, img.height)

\* renderEdgeAwarePixels(imageData, edgeMap, pixelSize, edgeSharpness): the
\* image returned and the blocks writing each pixel
renderEdgeAwarePixels(img, em, pixelSize, sharp10) ==
    LET blocks == EdgeAwareBlocks(img, pixelSize)
        colors == Stored([i \in 1..Len(blocks) |->
                     BlockColor(img, em, pixelSize, sharp10, blocks[i][1], blocks[i][2])])
        ws     == EdgeAwareWriters(img, pixelSize)
    IN [output  |-> [width  |-> img.width,
                     height |-> img.height,
                     data   |-> [k \in 1..(img.width * img.height) |->
                                   IF ws[k] = <<>> THEN Transparent
                                   ELSE FillColor(colors[ws[k][Len(ws[k])]], img.data[k])]],
        writers |-> ws]

\* renderEdgeAwarePixelsStep(imageData, edgeMap, pixelSize, edgeSharpness)
renderEdgeAwarePixelsStep(img, em, pixelSize, sharp10) ==
    renderEdgeAwarePixels(img, em, pixelSize, sharp10)

----------------------------------------------------------------------------
(* The renderers as a state machine *)

\* image widths and heights rendered
RenderWidths == {1, 3, 4, 15, 61}
RenderHeights == {1, 2}
\* largest grid shape handed to renderGrid
MaxRenderCols == 11
MaxRenderRows == 2
\* largest pixelSize handed to renderEdgeAwarePixels
MaxPixelSize == 4

\* colours of the source images
Palette == << [r |-> 255, g |-> 0,   b |-> 0,   a |-> 255],
              [r |-> 0,   g |-> 0,   b |-> 255, a |-> 128],
              [r |-> 10,  g |-> 200, b |-> 30,  a |-> 255] >>

\* source images tried: vertical stripes, and a diagonal three-colour ramp
SourceImages(w, h) ==
    { [width |-> w, height |-> h,
       data |-> [k \in 1..(w * h) |-> Palette[1 + (((k - 1) % w) % 2)]]],
      [width |-> w, height |-> h,
       data |-> [k \in 1..(w * h) |-> Palette[1 + ((((k - 1) % w) + 2 * ((k - 1) \div w)) % 3)]]] }

\* edge maps tried (strengths in tenths): no edge, and a full-strength line
\* in column 0 with half-strength edges on every third pixel
RenderEdgeMaps(w, h) ==
    { [k \in 1..(w * h) |-> 0],
      [k \in 1..(w * h) |-> IF (k - 1) % w = 0 THEN 10
                            ELSE IF (k - 1) % 3 = 1 THEN 5 ELSE 0] }

\* edgeSharpness values tried by the renderers, in tenths
RenderSharpness == {0, 8, 10}

\* the optimizer does not run in this specification
OptimizerUnused ==
    /\ gridSize = 0
    /\ opts = DefaultOptions
    /\ pc = "idle"
    /\ iteration = 0
    /\ row = 0
    /\ col = 0
    /\ before = grid
    /\ calls = 0
    /\ passes = 0
    /\ returned = "none"

RenderInit ==
    /\ StagesUnused
    /\ width \in RenderWidths
    /\ height \in RenderHeights
    /\ image \in SourceImages(width, height)
    /\ edgeMap \in { [present |-> TRUE, data |-> d] : d \in RenderEdgeMaps(width, height) }
    /\ grid = [corners |-> <<>>, cells |-> <<>>, cols |-> 0, rows |-> 0]
    /\ renderArgs = [renderer |-> "none"]
    /\ output = [width |-> 0, height |-> 0, data |-> <<>>]
    /\ sampled = <<>>
    /\ writers = <<>>
    /\ painted = <<>>
    /\ OptimizerUnused

\* renderGrid(grid, imageData, edgeMap, edgeSharpness) on a grid of any shape
RenderGrid ==
    /\ renderArgs.renderer = "none"
    /\ \E rows \in 1..MaxRenderRows, cols \in 1..MaxRenderCols, sharp10 \in RenderSharpness :
         LET g == [grid EXCEPT !.rows = rows, !.cols = cols]
             run == renderGrid(g, image, sharp10)
         IN /\ grid' = g
            /\ renderArgs' = [renderer |-> "renderGrid", edgeSharpness |-> sharp10]
            /\ output' = run.output
            /\ sampled' = run.sampled
            /\ writers' = run.writers
            /\ painted' = run.painted
    /\ UNCHANGED <<width, height, gridSize, edgeMap, opts, pc, iteration, row, col,
                   before, calls, passes, returned, image>>
    /\ UNCHANGED stageVars

\* renderEdgeAwarePixelsStep(imageData, edgeMap, pixelSize, edgeSharpness)
RenderEdgeAware ==
    /\ renderArgs.renderer = "none"
    /\ \E pixelSize \in 1..MaxPixelSize, sharp10 \in RenderSharpness :
         LET run == renderEdgeAwarePixelsStep(image, edgeMap.data, pixelSize, sharp10)
         IN /\ renderArgs' = [renderer |-> "renderEdgeAwarePixels",
                              pixelSize |-> pixelSize, edgeSharpness |-> sharp10]
            /\ output' = run.output
            /\ writers' = run.writers
    /\ UNCHANGED <<width, height, gridSize, grid, edgeMap, opts, pc, iteration, row, col,
                   before, calls, passes, returned, image, sampled, painted>>
    /\ UNCHANGED stageVars

RenderNext == RenderGrid \/ RenderEdgeAware

SpecRender == RenderInit /\ [][RenderNext]_vars

----------------------------------------------------------------------------
(* Claims about the renderers *)

\* index into ImageData-sized sequences of the pixel (x, y) of the image
PixelIndex(x, y) == y * image.width + x + 1

\* C7: renderGrid / renderGridAsRectangles returns an image of the source's
\* width and height in which every pixel is written by exactly one block and
\* has alpha 255, for any rows, cols >= 1
C7_EveryPixelPaintedOnce ==
    renderArgs.renderer = "renderGrid" =>
        /\ output.width = image.width
        /\ output.height = image.height
        /\ Len(output.data) = image.width * image.height
        /\ \A k \in 1..(image.width * image.height) :
              /\ Len(writers[k]) = 1
              /\ output.data[k].a = 255

\* C8: in the output of renderEdgeAwarePixelsStep with an integer block size
\* p >= 1, all pixels inside each block
\* [bx*p, min((bx+1)*p, W)) x [by*p, min((by+1)*p, H)) have one colour
C8_BlocksUniform ==
    renderArgs.renderer = "renderEdgeAwarePixels" =>
        LET p == renderArgs.pixelSize
        IN \A bx \in 0..(CeilDiv(image.width, p) - 1), by \in 0..(CeilDiv(image.height, p) - 1) :
              \A x \in (bx * p)..(Min((bx + 1) * p, image.width) - 1),
                 y \in (by * p)..(Min((by + 1) * p, image.height) - 1) :
                    output.data[PixelIndex(x, y)] = output.data[PixelIndex(bx * p, by * p)]

\* a block with an edge, a partial last block, a blend of average and median,
\* and two source pixels of one block that differ in colour and alpha
C8_Witness ==
    /\ renderArgs.renderer = "renderEdgeAwarePixels"
    /\ renderArgs.pixelSize = 2
    /\ renderArgs.edgeSharpness = 8
    /\ image.width % 2 = 1
    /\ image.width >= 3
    /\ edgeMap.data[1] > 0
    /\ image.data[1].a # image.data[2].a
    /\ image.data[1].r # image.data[2].r
    /\ output.data[1] = output.data[2]

\* C9: for every block, the source pixels renderGrid samples lie in the
\* rectangle painted for that block, and in no other block
C9_SamplesInsidePaintedBlock ==
    renderArgs.renderer = "renderGrid" =>
        \A i \in 1..(grid.rows * grid.cols) :
            \A s \in sampled[i] :
                /\ painted[i].startX <= s[1] /\ s[1] < painted[i].endX
                /\ painted[i].startY <= s[2] /\ s[2] < painted[i].endY
                /\ writers[PixelIndex(s[1], s[2])] = <<i>>

\* several blocks of fractional width, one of them sampled at several pixels
C9_Witness ==
    /\ renderArgs.renderer = "renderGrid"
    /\ grid.cols >= 2
    /\ grid.rows >= 2
    /\ image.width % grid.cols # 0
    /\ \E i \in 1..(grid.rows * grid.cols) : Cardinality(sampled[i]) >= 2
    /\ \E i \in 1..(grid.rows * grid.cols) : sampled[i] = {}

\* the largest edge value (in tenths) among the pixels of the block at
\* (blockX, blockY), 0 if none is edge-positive
BlockMaxEdge(img, em, pixelSize, blockX, blockY) ==
    LET pts   == BlockPixels(img, pixelSize, blockX, blockY)
        edges == { EdgeAt(em, pts[k][2] * img.width + pts[k][1]) : k \in 1..Len(pts) } \cup {0}
    IN CHOOSE e \in edges : \A f \in edges : f <= e

\* mean * (1 - b) + median * b of the block's pixels, b = blend100 / 100
ScaledBlend(img, pixelSize, blockX, blockY, blend100) ==
    LET pts    == BlockPixels(img, pixelSize, blockX, blockY)
        colors == Stored([k \in 1..Len(pts) |-> PixelAt(img, pts[k][1], pts[k][2])])
    IN BlendColor(getAverageColor(colors), getMedianColor(colors), blend100, 100)

\* C22: renderEdgeAwarePixelsStep colours a block with the mean of its pixels
\* if none of them is edge-positive, and otherwise with
\* mean * (1 - b) + median * b where b = edgeSharpness * (the largest edge
\* value in the block), for every edgeSharpness in [0, 1]
C22_BlockColourIsScaledBlend ==
    renderArgs.renderer = "renderEdgeAwarePixels" =>
        LET p == renderArgs.pixelSize
        IN \A bx \in 0..(CeilDiv(image.width, p) - 1), by \in 0..(CeilDiv(image.height, p) - 1) :
              output.data[PixelIndex(bx * p, by * p)] =
                  ScaledBlend(image, p, bx * p, by * p,
                              renderArgs.edgeSharpness
                                * BlockMaxEdge(image, edgeMap.data, p, bx * p, by * p))

\* C21: the number of pixels sampleUniformRect reads to compute one block's
\* colour is at most 36 (6 x 6), whatever the block's width and height
C21_SampleCountBounded ==
    renderArgs.renderer = "renderGrid" =>
        \A i \in 1..(grid.rows * grid.cols) : Cardinality(sampled[i]) <= 6 * 6

----------------------------------------------------------------------------
(* createInitialGrid as a state machine *)

\* largest width, height and gridSize handed to createInitialGrid
MaxGridWidth == 8
MaxGridHeight == 6
MaxGridSize == 3

\* no grid has been created yet
NoGrid == [corners |-> <<>>, cells |-> <<>>, cols |-> 0, rows |-> 0]

\* the lattice of createInitialGrid(w, h, s) is a whole number of 1/Scale pixels
Representable(w, h, s) ==
    /\ (w * Scale) % CeilDiv(w, s) = 0
    /\ (h * Scale) % CeilDiv(h, s) = 0

GridInit ==
    /\ StagesUnused
    /\ width \in 1..MaxGridWidth
    /\ height \in 1..MaxGridHeight
    /\ gridSize \in 1..MaxGridSize
    /\ Representable(width, height, gridSize)
    /\ grid = NoGrid
    /\ edgeMap = [present |-> FALSE, data |-> <<>>]
    /\ opts = DefaultOptions
    /\ pc = "idle"
    /\ iteration = 0
    /\ row = 0
    /\ col = 0
    /\ before = NoGrid
    /\ calls = 0
    /\ passes = 0
    /\ returned = "none"
    /\ RenderUnused

\* grid = createInitialGrid(width, height, gridSize)
CreateGrid ==
    /\ grid = NoGrid
    /\ grid' = createInitialGrid(width, height, gridSize)
    /\ UNCHANGED <<width, height, gridSize, edgeMap, opts, pc, iteration, row, col,
                   before, calls, passes, returned, renderVars>>
    /\ UNCHANGED stageVars

GridNext == CreateGrid

SpecGrid == GridInit /\ [][GridNext]_vars

\* C6: createInitialGrid(w, h, s) with s >= 1 builds cols = ceil(w/s),
\* rows = ceil(h/s), a (rows+1) x (cols+1) lattice with corner(row, col) =
\* (col*w/cols, row*h/rows), so corners[0][0] = (0,0) and the last corner is
\* (w,h), and rows*cols cells where cell row*cols+col references the corners
\* (row,col), (row,col+1), (row+1,col+1), (row+1,col) in that order; no
\* initial cell is degenerate
C6_InitialGridShape ==
    grid # NoGrid =>
        /\ grid.cols * gridSize >= width /\ (grid.cols - 1) * gridSize < width
        /\ grid.rows * gridSize >= height /\ (grid.rows - 1) * gridSize < height
        /\ Len(grid.corners) = grid.rows + 1
        /\ \A r \in 0..grid.rows :
              /\ Len(grid.corners[r + 1]) = grid.cols + 1
              /\ \A c \in 0..grid.cols :
                    /\ CornerAt(grid, r, c).x * grid.cols = c * width * Scale
                    /\ CornerAt(grid, r, c).y * grid.rows = r * height * Scale
                    /\ CornerAt(grid, r, c).originalX = CornerAt(grid, r, c).x
                    /\ CornerAt(grid, r, c).originalY = CornerAt(grid, r, c).y
        /\ CornerAt(grid, 0, 0).x = 0 /\ CornerAt(grid, 0, 0).y = 0
        /\ CornerAt(grid, grid.rows, grid.cols).x = width * Scale
        /\ CornerAt(grid, grid.rows, grid.cols).y = height * Scale
        /\ Len(grid.cells) = grid.rows * grid.cols
        /\ \A r \in 0..(grid.rows - 1), c \in 0..(grid.cols - 1) :
              LET cell == grid.cells[r * grid.cols + c + 1]
              IN /\ cell.corners = << <<r, c>>, <<r, c + 1>>, <<r + 1, c + 1>>, <<r + 1, c>> >>
                 /\ ~Degenerate(CellCorners(grid, cell))

\* a created grid whose lattice steps are not whole pixels and whose last
\* column and row are cut short by the ceiling
C6_Witness ==
    /\ grid # NoGrid
    /\ grid.cols >= 2
    /\ grid.rows >= 2
    /\ width % grid.cols # 0
    /\ width % gridSize # 0
    /\ height % gridSize # 0

----------------------------------------------------------------------------
(* Edge detection: calculateEdgeMap (edgeDetection.js)                      *)
(*                                                                          *)
(* gray = (r + g + b) / 3 is a double, and it is rounded whenever r + g + b *)
(* is not a multiple of 3.  A double of the Sobel sums is held exactly as   *)
(* the pair <<A, B>> of integers that stands for                            *)
(*     (A + B * 2^-ResidueBits) / 3 :                                       *)
(* A is what real arithmetic gives and B is the rounding residue.  An entry *)
(* of a magnitude or edge map is the number sqrt(sq / of), held as the      *)
(* ratio of squares in lowest terms and the order of the ratio: order 1 is  *)
(* a residue measured against a maximum that is not one.                    *)

\* the residues of the doubles met here are multiples of 2^-54 / 3
ResidueBits == 54

\* the spacing, in units of 2^-ResidueBits, of the doubles around A / 3:
\* the least U * 2^k with A / 3 < U * 2^k / 2
BinadeUnit(A, U) ==
    LET e == CHOOSE k \in 0..30 :
                 3 * U * 2 ^ k > 2 * A /\ (k = 0 \/ 3 * U * 2 ^ (k - 1) <= 2 * A)
    IN U * 2 ^ e

\* the spacing of the doubles around (A + B * 2^-ResidueBits) / 3, given the
\* spacing U0 around A / 3: just below a power of two the doubles are twice
\* as dense
SpacingBelow(A, B, U0) == IF 4 * A = 3 * U0 /\ B < 0 THEN U0 \div 2 ELSE U0

\* the multiple of the spacing U nearest to (A + B * 2^-ResidueBits) / 3,
\* ties to even: N3 is three times what the number exceeds a multiple by,
\* and q is the parity of that multiple
NearestMultiple(A, B, U, N3, q) ==
    IF 2 * N3 < 3 * U THEN <<A, B - N3>>
    ELSE IF 2 * N3 > 3 * U THEN <<A, B + 3 * U - N3>>
    ELSE IF q % 2 = 0 THEN <<A, B - N3>>
    ELSE <<A, B + 3 * U - N3>>

\* the double nearest to (A + B * 2^-ResidueBits) / 3 where the doubles are
\* U apart
RoundToSpacing(A, B, U) ==
    NearestMultiple(A, B, U,
                    (A * Pow2Mod(ResidueBits, 3 * U) + B) % (3 * U),
                    ((A * Pow2Mod(ResidueBits, 6 * U) + B) % (6 * U)) \div (3 * U))

\* the double nearest to (A + B * 2^-ResidueBits) / 3, ties to even, A > 0
RoundPositive(A, B) == RoundToSpacing(A, B, SpacingBelow(A, B, BinadeUnit(A, 1)))

\* -d of a double d
DoubleNegate(d) == <<-d[1], -d[2]>>

\* the double nearest to (A + B * 2^-ResidueBits) / 3
DoubleRound(A, B) ==
    IF A = 0 THEN <<A, B>>
    ELSE IF A > 0 THEN RoundPositive(A, B)
    ELSE DoubleNegate(RoundPositive(-A, -B))

\* a + b of two doubles, and a double times a kernel weight (which is exact)
DoubleAdd(a, b) == DoubleRound(a[1] + b[1], a[2] + b[2])
DoubleTimes(a, weight) == <<a[1] * weight, a[2] * weight>>

\* the Float32Array entry sqrt(sq / of)
EdgeValue(sq, of) == <<RatNorm(sq, of)[1], RatNorm(sq, of)[2], 0>>

\* the entry sqrt(sq / of) * 2^-ResidueBits, with sq > 0
EdgeResidue(sq, of) == <<RatNorm(sq, of)[1], RatNorm(sq, of)[2], 1>>

\* the entries 0 and 1.0
EdgeZero == EdgeValue(0, 1)
EdgeOne == EdgeValue(1, 1)

\* a / b > c / d for naturals a, c and positive b, d, by comparing the
\* integer parts and then the reciprocals of the fractional parts, so that
\* no product is formed
RECURSIVE FractionGt(_, _, _, _)
FractionGt(a, b, c, d) ==
    IF a \div b # c \div d THEN a \div b > c \div d
    ELSE IF a % b = 0 THEN FALSE
    ELSE IF c % d = 0 THEN TRUE
    ELSE FractionGt(d, c % d, b, a % b)

\* a > b and a >= b for two entries
EdgeGt(a, b) ==
    IF a[1] = 0 THEN FALSE
    ELSE IF b[1] = 0 THEN TRUE
    ELSE IF a[3] # b[3] THEN a[3] < b[3]
    ELSE FractionGt(a[1], a[2], b[1], b[2])
EdgeGeq(a, b) == ~EdgeGt(b, a)

\* the Sobel kernels, at index kernelIdx + 1
sobelX == << -1, 0, 1, -2, 0, 2, -1, 0, 1 >>
sobelY == << -1, -2, -1, 0, 0, 0, 1, 2, 1 >>

\* 3 * gray of the pixel (x, y): data[idx] + data[idx + 1] + data[idx + 2]
Gray3(img, x, y) == PixelAt(img, x, y).r + PixelAt(img, x, y).g + PixelAt(img, x, y).b

\* gray = (data[idx] + data[idx + 1] + data[idx + 2]) / 3
GrayDouble(img, x, y) == DoubleRound(Gray3(img, x, y), 0)

\* the pixel is visited by the loops that exclude the border
Interior(w, h, x, y) == 1 <= x /\ x < w - 1 /\ 1 <= y /\ y < h - 1

\* gx (or gy) after the kernel loops reach index k: "gx += gray * sobelX[k]";
\* a term added to a sum that is still zero is the sum, without rounding
RECURSIVE SobelSum(_, _, _, _)
SobelSum(grays, kernel, k, acc) ==
    IF k > 9 THEN acc
    ELSE IF acc = <<0, 0>>
    THEN SobelSum(grays, kernel, k + 1, DoubleTimes(grays[k], kernel[k]))
    ELSE SobelSum(grays, kernel, k + 1, DoubleAdd(acc, DoubleTimes(grays[k], kernel[k])))

\* gx and gy of the interior pixel (x, y)
Gradient(img, x, y) ==
    LET grays == Stored([k \in 1..9 |->
                    GrayDouble(img, x + ((k - 1) % 3) - 1, y + ((k - 1) \div 3) - 1)])
    IN [gx |-> SobelSum(grays, sobelX, 1, <<0, 0>>),
        gy |-> SobelSum(grays, sobelY, 1, <<0, 0>>)]

\* per pixel, the gradient that magnitudeMap and directionMap are computed
\* from; the border entries of both arrays keep their zeros
Gradients(img) ==
    Stored([i \in 1..(img.width * img.height) |->
              IF Interior(img.width, img.height, (i - 1) % img.width, (i - 1) \div img.width)
              THEN Gradient(img, (i - 1) % img.width, (i - 1) \div img.width)
              ELSE [gx |-> <<0, 0>>, gy |-> <<0, 0>>]])

\* magnitude = Math.sqrt(gx * gx + gy * gy) as <<scale, square>>: at scale 2
\* the square is 9 * magnitude^2 and the residues vanish in the Float32Array
\* entry; at scale 1 only residues are left and the square is that of
\* 3 * 2^ResidueBits * magnitude; <<0, 0>> is the magnitude 0
MagnitudeSq(g) ==
    LET whole   == g.gx[1] * g.gx[1] + g.gy[1] * g.gy[1]
        residue == g.gx[2] * g.gx[2] + g.gy[2] * g.gy[2]
    IN IF whole > 0 THEN <<2, whole>>
       ELSE IF residue > 0 THEN <<1, residue>>
       ELSE <<0, 0>>

\* a > b for two magnitudes
MagnitudeGt(a, b) == a[1] > b[1] \/ (a[1] = b[1] /\ a[2] > b[2])

\* maxEdge after the loop "if (magnitudeMap[i] > maxEdge) maxEdge =
\* magnitudeMap[i]" has run from entry i on, starting from best: the largest
\* of best and the entries visited
MaxFrom(seq, i, best) ==
    LET visited == {best} \cup { seq[j] : j \in i..Len(seq) }
    IN CHOOSE m \in visited : \A n \in visited : ~MagnitudeGt(n, m)

\* magnitudeMap after "magnitudeMap[i] /= maxEdge"
NormalizedMagnitudes(grads) ==
    LET sq      == Stored([i \in 1..Len(grads) |-> MagnitudeSq(grads[i])])
        maxEdge == MaxFrom(sq, 1, <<0, 0>>)
    IN Stored([i \in 1..Len(grads) |->
                 IF sq[i][1] = 0 THEN EdgeZero
                 ELSE IF sq[i][1] = maxEdge[1] THEN EdgeValue(sq[i][2], maxEdge[2])
                 ELSE EdgeResidue(sq[i][2], maxEdge[2])])

\* the sector of direction = Math.atan2(gy, gx) + Math.PI / 2 after it is
\* normalized to [0, 2 pi): tan(pi / 8) = sqrt(2) - 1, so the direction is
\* within pi / 8 of 0 or pi exactly when (|gx| + |gy|)^2 < 2 gy^2
Sector(g) ==
    LET part == IF MagnitudeSq(g)[1] = 2 THEN 1 ELSE 2
        gx   == g.gx[part]
        gy   == g.gy[part]
        s    == (Abs(gx) + Abs(gy)) * (Abs(gx) + Abs(gy))
    IN IF s < 2 * gy * gy THEN "horizontal"
       ELSE IF s < 2 * gx * gx THEN "vertical"
       ELSE IF gx * gy < 0 THEN "diagonal45"
       ELSE "diagonal135"

\* the indices (from 1) of neighbor1 and neighbor2 of the pixel at index i
Neighbors(sector, i, w) ==
    IF sector = "horizontal" THEN << i - 1, i + 1 >>
    ELSE IF sector = "diagonal45" THEN << i - w + 1, i + w - 1 >>
    ELSE IF sector = "vertical" THEN << i - w, i + w >>
    ELSE << i - w - 1, i + w + 1 >>

\* applyNonMaximumSuppression(magnitudeMap, directionMap, width, height);
\* directionMap is given as the gradients its entries are the angles of
applyNonMaximumSuppression(magnitudeMap, directionMap, w, h) ==
    Stored([i \in 1..(w * h) |->
              IF ~Interior(w, h, (i - 1) % w, (i - 1) \div w) THEN EdgeZero
              ELSE IF magnitudeMap[i] = EdgeZero THEN EdgeZero
              ELSE LET n == Neighbors(Sector(directionMap[i]), i, w)
                   IN IF /\ EdgeGeq(magnitudeMap[i], magnitudeMap[n[1]])
                         /\ EdgeGeq(magnitudeMap[i], magnitudeMap[n[2]])
                      THEN magnitudeMap[i]
                      ELSE EdgeZero])

\* element k (counted from 0) of the entries vs sorted in ascending order
SortedEdgeAt(vs, k) ==
    LET n == Len(vs)
        rank(i) == Cardinality({ j \in 1..n :
                        EdgeGt(vs[i], vs[j]) \/ (vs[j] = vs[i] /\ j < i) })
    IN vs[CHOOSE i \in 1..n : rank(i) = k]

\* the percentile taken from the top of the sorted values
ActualThresholdFromTop(edges, thresholdNum, thresholdDen) ==
    LET nonZeroValues == SelectSeq(edges, LAMBDA v : EdgeGt(v, EdgeZero))
        n == Len(nonZeroValues)
        percentileIndex == n - CeilDiv(n * thresholdNum, thresholdDen)
        index == Min(n - 1, Max(0, percentileIndex))
    IN IF thresholdNum > 0 /\ n > 0
       THEN SortedEdgeAt(nonZeroValues, index)
       ELSE EdgeValue(thresholdNum * thresholdNum, thresholdDen * thresholdDen)

\* actualThreshold of applyThresholding with usePercentile = true; the
\* threshold is the fraction thresholdNum / thresholdDen
ActualThreshold(edges, thresholdNum, thresholdDen) ==
    LET nonZeroValues == SelectSeq(edges, LAMBDA v : EdgeGt(v, EdgeZero))
        n == Len(nonZeroValues)
        percentileIndex == CeilDiv(n * thresholdNum, thresholdDen)
        index == Min(n - 1, Max(0, percentileIndex))
    IN IF thresholdNum > 0 /\ n > 0
       THEN SortedEdgeAt(nonZeroValues, index)
       ELSE EdgeValue(thresholdNum * thresholdNum, thresholdDen * thresholdDen)

\* an entry that keeps only its magnitude when it passes the threshold
KeptMagnitude(v, binarize) == v

\* binarize ? 1.0 : edgeMap[i]
Kept(v, binarize) == IF binarize THEN EdgeOne ELSE v

\* applyThresholding(edgeMap, width, height, {threshold, highThreshold: null,
\* lowThreshold: null}) with usePercentile = true: simple thresholding
applyThresholding(edges, w, h, thresholdNum, thresholdDen, binarize) ==
    LET actualThreshold == ActualThreshold(edges, thresholdNum, thresholdDen)
    IN Stored([i \in 1..Len(edges) |->
                 IF EdgeGeq(edges[i], actualThreshold) THEN Kept(edges[i], binarize)
                 ELSE EdgeZero])

\* calculateEdgeMap(imageData, {edgeSharpness}); edgeSharpness in tenths, so
\* threshold = 0.1 + edgeSharpness * 0.5 = (10 + 5 * sharp10) / 100
calculateEdgeMap(img, sharp10) ==
    LET grads        == Gradients(img)
        magnitudeMap == NormalizedMagnitudes(grads)
        suppressed   == applyNonMaximumSuppression(magnitudeMap, grads, img.width, img.height)
    IN applyThresholding(suppressed, img.width, img.height, 10 + 5 * sharp10, 100, TRUE)

\* the number of edge-positive entries of an edge map
EdgeCount(data) == Cardinality({ i \in 1..Len(data) : EdgeGt(data[i], EdgeZero) })

----------------------------------------------------------------------------
(* calculateEdgeMap as a state machine *)

\* largest image handed to calculateEdgeMap
MaxEdgeWidth == 5
MaxEdgeHeight == 4

\* colours of the images.  1..5: black, red (gray 85), a translucent gray 85,
\* gray 170, white, where r + g + b is a multiple of 3 and gray is exact.
\* 6..10: dark colours with r + g + b = 1, 4, 3, 7, 2.  11, 12: two colours
\* used for uniform images only
EdgePalette == << [r |-> 0,   g |-> 0,   b |-> 0,   a |-> 255],
                  [r |-> 255, g |-> 0,   b |-> 0,   a |-> 255],
                  [r |-> 85,  g |-> 85,  b |-> 85,  a |-> 128],
                  [r |-> 170, g |-> 170, b |-> 170, a |-> 255],
                  [r |-> 255, g |-> 255, b |-> 255, a |-> 255],
                  [r |-> 1,   g |-> 0,   b |-> 0,   a |-> 255],
                  [r |-> 2,   g |-> 1,   b |-> 1,   a |-> 255],
                  [r |-> 1,   g |-> 1,   b |-> 1,   a |-> 255],
                  [r |-> 3,   g |-> 2,   b |-> 2,   a |-> 255],
                  [r |-> 0,   g |-> 1,   b |-> 1,   a |-> 255],
                  [r |-> 100, g |-> 100, b |-> 101, a |-> 255],
                  [r |-> 200, g |-> 100, b |-> 50,  a |-> 255] >>

\* the image of size w x h whose pixel (x, y) has the colour EdgePalette[f[x, y]]
PaintedImage(w, h, f) ==
    [width |-> w, height |-> h,
     data |-> [k \in 1..(w * h) |-> EdgePalette[f[(k - 1) % w, (k - 1) \div w]]]]

\* the images tried, over the colours 1..5 (o = 0) and over the colours 6..10
\* (o = 5): uniform ones, steps along x, along y and along the diagonal
\* between two colours, one pixel that differs, and two ramps
EdgeImages(w, h) ==
    LET xs == 0..(w - 1)
        ys == 0..(h - 1)
        pairs == { <<1, 5>>, <<2, 3>>, <<4, 2>> }
        os == {0, 5}
    IN { PaintedImage(w, h, [x \in xs, y \in ys |-> c]) : c \in 1..Len(EdgePalette) }
       \cup { PaintedImage(w, h, [x \in xs, y \in ys |-> o + (IF x < c THEN p[1] ELSE p[2])]) :
                c \in 1..(w - 1), p \in pairs, o \in os }
       \cup { PaintedImage(w, h, [x \in xs, y \in ys |-> o + (IF y < c THEN p[1] ELSE p[2])]) :
                c \in 1..(h - 1), p \in pairs, o \in os }
       \cup { PaintedImage(w, h, [x \in xs, y \in ys |-> o + (IF x + y < c THEN p[1] ELSE p[2])]) :
                c \in 1..(w + h - 2), p \in pairs, o \in os }
       \cup { PaintedImage(w, h, [x \in xs, y \in ys |-> IF x = q[1] /\ y = q[2] THEN 5 ELSE 1]) :
                q \in xs \X ys }
       \cup { PaintedImage(w, h, [x \in xs, y \in ys |-> o + 1 + ((x + 2 * y) % 5)]) : o \in os }
       \cup { PaintedImage(w, h, [x \in xs, y \in ys |-> o + 1 + ((x * x + 3 * y) % 4)]) : o \in os }

\* edgeSharpness options tried, in tenths: 0, 0.8 (the default), 1
EdgeSharpnessTenths == {0, 8, 10}

EdgeInit ==
    /\ width \in 1..MaxEdgeWidth
    /\ height \in 1..MaxEdgeHeight
    /\ image \in EdgeImages(width, height)
    /\ edgeMap = [present |-> FALSE, data |-> <<>>]
    /\ gridSize = 0
    /\ grid = NoGrid
    /\ opts = DefaultOptions
    /\ pc = "idle"
    /\ iteration = 0
    /\ row = 0
    /\ col = 0
    /\ before = NoGrid
    /\ calls = 0
    /\ passes = 0
    /\ returned = "none"
    /\ renderArgs = [renderer |-> "none"]
    /\ output = [width |-> 0, height |-> 0, data |-> <<>>]
    /\ sampled = <<>>
    /\ writers = <<>>
    /\ painted = <<>>
    /\ StagesUnused

\* edgeMap = calculateEdgeMap(imageData, {edgeSharpness}); the caller raises
\* edgeSharpness from one call on the image to the next
CalculateEdgeMap ==
    /\ returned \in {"none", "edgeMap"}
    /\ \E sharp10 \in EdgeSharpnessTenths :
         /\ \A c \in edgeCounts : c[1] < sharp10
         /\ opts' = [opts EXCEPT !.edgeSharpness = sharp10]
         /\ LET data == calculateEdgeMap(image, sharp10)
            IN /\ edgeMap' = [present |-> TRUE, data |-> data]
               /\ edgeCounts' = edgeCounts \cup { <<sharp10, EdgeCount(data)>> }
    /\ returned' = "edgeMap"
    /\ UNCHANGED <<width, height, gridSize, grid, pc, iteration, row, col, before,
                   calls, passes, renderVars, stepVars, heapVars, pipeVars, cellVars>>

EdgeNext == CalculateEdgeMap

SpecEdge == EdgeInit /\ [][EdgeNext]_vars

\* C10: calculateEdgeMap returns an array of exactly width * height entries,
\* each in [0, 1], and each 0 or 1 as the thresholding binarizes, for any
\* image and any edgeSharpness in [0, 1]
C10_EdgeMapBinary ==
    returned = "edgeMap" =>
        /\ Len(edgeMap.data) = image.width * image.height
        /\ \A i \in 1..Len(edgeMap.data) :
              /\ EdgeGeq(edgeMap.data[i], EdgeZero)
              /\ EdgeGeq(EdgeOne, edgeMap.data[i])
              /\ edgeMap.data[i] \in {EdgeZero, EdgeOne}

\* an edge map with edges, computed from an image in which some pixel with a
\* gradient weaker than the strongest one is kept and another is dropped
C10_Witness ==
    /\ returned = "edgeMap"
    /\ LET grads == Gradients(image)
           sq    == Stored([n \in 1..Len(grads) |-> MagnitudeSq(grads[n])])
       IN \E i, j, k \in 1..Len(edgeMap.data) :
             /\ MagnitudeGt(sq[i], sq[j]) /\ sq[j][1] > 0 /\ sq[k][1] > 0
             /\ edgeMap.data[j] = EdgeOne
             /\ edgeMap.data[k] = EdgeZero

\* C11: on one image, raising edgeSharpness never raises the number of
\* edge-positive entries of the edge map calculateEdgeMap returns
C11_SharperNeverMoreEdges ==
    \A c1, c2 \in edgeCounts : c1[1] <= c2[1] => c2[2] <= c1[2]

\* an image on which each of the sharpness values tried finds edges, and
\* fewer of them than the value before
C11_Witness ==
    \E c1, c2, c3 \in edgeCounts :
       /\ c1[1] < c2[1] /\ c2[1] < c3[1]
       /\ c1[2] > c2[2] /\ c2[2] > c3[2] /\ c3[2] > 0

\* the source image has one colour
UniformImage(img) == \A k \in 1..Len(img.data) : img.data[k] = img.data[1]

\* C12: for a uniform-colour image calculateEdgeMap returns an all-zero edge
\* map, whatever the edgeSharpness
C12_UniformImageNoEdges ==
    (returned = "edgeMap" /\ UniformImage(image)) =>
        \A i \in 1..Len(edgeMap.data) : edgeMap.data[i] = EdgeZero

----------------------------------------------------------------------------
(* Palette quantizer: quantizeColors, quantizeColorsStep (pixelate.js)      *)
(*                                                                          *)
(* The sampling stride exceeds 1 only for images of 40000 pixels or more,   *)
(* so the pixel data of the quantizer is held run-length encoded: data is a *)
(* sequence of runs [n, c], each standing for n > 0 consecutive pixels of   *)
(* colour c.  The quantizer maps a run to a run of the same length, so two  *)
(* buffers with the same run lengths are equal exactly when their runs are. *)

\* n consecutive pixels of the colour c
Run(n, c) == [n |-> n, c |-> c]

\* the r, g, b of a colour: { r, g, b } of colorSamples and palette
Rgb(c) == [r |-> c.r, g |-> c.g, b |-> c.b]

\* index (from 0) of the first pixel of run k
RECURSIVE RunStart(_, _)
RunStart(runs, k) == IF k = 1 THEN 0 ELSE RunStart(runs, k - 1) + runs[k - 1].n

\* sampleStep = Math.max(1, Math.floor(Math.sqrt(width * height) / 100));
\* Math.floor(Math.sqrt(width * height) / 100) is the s with
\* (100 s)^2 <= width * height < (100 (s + 1))^2
QuantizeSampleStep(w, h) ==
    Max(1, CHOOSE s \in 0..Max(w, h) :
              /\ (100 * s) * (100 * s) <= w * h
              /\ w * h < (100 * (s + 1)) * (100 * (s + 1)))

\* the number of pixels of run k that the loop "i += 4 * sampleStep" reads:
\* the multiples of sampleStep among the pixel indices of the run
RunSamples(runs, k, sampleStep) ==
    CeilDiv(RunStart(runs, k) + runs[k].n, sampleStep) - CeilDiv(RunStart(runs, k), sampleStep)

\* colorSamples, as runs of equal samples in the order they are pushed
ColorSamples(runs, sampleStep) ==
    LET counts == Stored([k \in 1..Len(runs) |-> RunSamples(runs, k, sampleStep)])
        all    == Stored([k \in 1..Len(runs) |-> Run(counts[k], Rgb(runs[k].c))])
    IN SelectSeq(all, LAMBDA s : s.n > 0)

\* colorSamples.length
SampleCount(samples) == SumRange([k \in 1..Len(samples) |-> samples[k].n], 1, Len(samples))

\* the keys of a Map filled from the samples, in insertion order
RECURSIVE UniqueColors(_, _, _)
UniqueColors(samples, k, seen) ==
    IF k > Len(samples) THEN seen
    ELSE UniqueColors(samples, k + 1,
            IF \E i \in 1..Len(seen) : seen[i] = samples[k].c THEN seen
            ELSE Append(seen, samples[k].c))

\* colorFreq.get(key)
ColorFreq(samples, c) ==
    SumRange([k \in 1..Len(samples) |-> IF samples[k].c = c THEN samples[k].n ELSE 0],
             1, Len(samples))

\* sortedByFreq: the unique colours by descending frequency; the sort is
\* stable, so equal frequencies keep the insertion order
SortedByFreq(samples) ==
    LET unique == UniqueColors(samples, 1, <<>>)
        freq   == Stored([i \in 1..Len(unique) |-> ColorFreq(samples, unique[i])])
        rank(i) == Cardinality({ j \in 1..Len(unique) :
                        freq[j] > freq[i] \/ (freq[j] = freq[i] /\ j < i) })
    IN Stored([k \in 1..Len(unique) |-> unique[CHOOSE i \in 1..Len(unique) : rank(i) = k - 1]])

\* dist^2 of two colours; Math.sqrt is monotone and exact enough on these
\* integers that comparing dist is comparing dist^2
ColorDistSq(c1, c2) ==
    (c1.r - c2.r) * (c1.r - c2.r) + (c1.g - c2.g) * (c1.g - c2.g)
        + (c1.b - c2.b) * (c1.b - c2.b)

\* minDist^2 of a colour to the colours of a non-empty palette
MinDistSq(c, palette) ==
    LET ds == { ColorDistSq(c, palette[i]) : i \in 1..Len(palette) }
    IN CHOOSE dist \in ds : \A e \in ds : dist <= e

\* the while loop that adds the candidate farthest from the palette; a
\* candidate outside the palette exists whenever the loop runs, so bestColor
\* is never null
RECURSIVE DiversePalette(_, _, _)
DiversePalette(palette, sortedByFreq, maxColors) ==
    IF ~(Len(palette) < maxColors /\ Len(palette) < Len(sortedByFreq)) THEN palette
    ELSE LET candidates == { i \in 1..Len(sortedByFreq) :
                               \A p \in 1..Len(palette) : palette[p] # sortedByFreq[i] }
             minDist == [i \in candidates |-> MinDistSq(sortedByFreq[i], palette)]
             best == CHOOSE i \in candidates :
                        \A j \in candidates :
                           minDist[j] < minDist[i] \/ (minDist[j] = minDist[i] /\ i <= j)
         IN DiversePalette(Append(palette, sortedByFreq[best]), sortedByFreq, maxColors)

\* a palette of every sampled colour
QuantizePaletteOfAll(samples, maxColors) == UniqueColors(samples, 1, <<>>)

\* palette before "Ensure we have at least one color"
QuantizePalette(samples, maxColors) ==
    IF SampleCount(samples) <= maxColors
    THEN LET unique == UniqueColors(samples, 1, <<>>)
         IN SubSeq(unique, 1, Min(Len(unique), maxColors))
    ELSE LET sortedByFreq == SortedByFreq(samples)
         IN DiversePalette(<<sortedByFreq[1]>>, sortedByFreq, maxColors)

\* nearestColor: the first palette colour at the least distance
NearestColor(c, palette) ==
    LET least == MinDistSq(c, palette)
        first == CHOOSE i \in 1..Len(palette) :
                    /\ ColorDistSq(c, palette[i]) = least
                    /\ \A j \in 1..(i - 1) : ColorDistSq(c, palette[j]) # least
    IN palette[first]

\* quantizeColors(imageData, maxColors)
quantizeColors(img, maxColors) ==
    LET samples  == ColorSamples(img.data, QuantizeSampleStep(img.width, img.height))
        chosen   == QuantizePalette(samples, maxColors)
        palette  == IF Len(chosen) = 0 THEN << [r |-> 128, g |-> 128, b |-> 128] >>
                    ELSE chosen
        mapped(c) == LET nearestColor == NearestColor(c, palette)
                     IN [r |-> nearestColor.r, g |-> nearestColor.g,
                         b |-> nearestColor.b, a |-> c.a]
    IN [width |-> img.width, height |-> img.height,
        data |-> Stored([k \in 1..Len(img.data) |->
                           Run(img.data[k].n, mapped(img.data[k].c))])]

\* quantizeColorsStep(imageData, colorLimit)
quantizeColorsStep(img, colorLimit) ==
    IF colorLimit <= 0 THEN img ELSE quantizeColors(img, colorLimit)

----------------------------------------------------------------------------
(* quantizeColorsStep as a state machine *)

\* largest colorLimit tried
MaxColors == 3

\* colours of the images quantized: black, black at half alpha, nearly
\* black, red, white
QuantizerColors == { [r |-> 0,   g |-> 0,   b |-> 0,   a |-> 255],
                    [r |-> 0,   g |-> 0,   b |-> 0,   a |-> 128],
                    [r |-> 10,  g |-> 0,   b |-> 0,   a |-> 255],
                    [r |-> 255, g |-> 0,   b |-> 0,   a |-> 255],
                    [r |-> 255, g |-> 255, b |-> 255, a |-> 255] }

\* sizes of the small images (stride 1), given pixel by pixel
SmallSizes == { <<1, 1>>, <<2, 1>>, <<2, 2>> }

\* sizes of the large images: 200 x 200 has stride 2, 300 x 300 stride 3
LargeSizes == { <<200, 200>>, <<300, 300>> }

\* the images tried: every small image over the colours, and large images
\* of one colour but for the pixel at index 1, 2 or 3
QuantizeImages ==
    UNION { { [width |-> sz[1], height |-> sz[2],
               data |-> [k \in 1..(sz[1] * sz[2]) |-> Run(1, f[k])]] :
                f \in [1..(sz[1] * sz[2]) -> QuantizerColors] } : sz \in SmallSizes }
    \cup { [width |-> sz[1], height |-> sz[2],
            data |-> << Run(k, c1), Run(1, c2), Run(sz[1] * sz[2] - k - 1, c1) >>] :
             sz \in LargeSizes, k \in 1..3, c1 \in QuantizerColors, c2 \in QuantizerColors }

QuantizeInit ==
    /\ image \in QuantizeImages
    /\ width = image.width
    /\ height = image.height
    /\ edgeMap = [present |-> FALSE, data |-> <<>>]
    /\ grid = NoGrid
    /\ OptimizerUnused
    /\ renderArgs = [renderer |-> "none"]
    /\ output = [width |-> 0, height |-> 0, data |-> <<>>]
    /\ sampled = <<>>
    /\ writers = <<>>
    /\ painted = <<>>
    /\ StagesUnused

\* output = quantizeColorsStep(imageData, colorLimit)
QuantizeColorsStep ==
    /\ renderArgs.renderer = "none"
    /\ \E colorLimit \in 0..MaxColors :
         /\ renderArgs' = [renderer |-> "quantizeColorsStep", colorLimit |-> colorLimit]
         /\ output' = quantizeColorsStep(image, colorLimit)
    /\ UNCHANGED <<optVars, image, sampled, writers, painted, stageVars>>

QuantizeNext == QuantizeColorsStep

SpecQuantize == QuantizeInit /\ [][QuantizeNext]_vars

\* the distinct colours (r, g, b) of a run-length encoded buffer
RgbColors(img) == { Rgb(img.data[k].c) : k \in 1..Len(img.data) }

\* the distinct colours (r, g, b, a) of a run-length encoded buffer
RgbaColors(img) == { img.data[k].c : k \in 1..Len(img.data) }

C14_FewColorsUnchanged ==
    (/\ renderArgs.renderer = "quantizeColorsStep"
     /\ renderArgs.colorLimit >= 1
     /\ Cardinality(RgbaColors(image)) <= renderArgs.colorLimit) =>
        output.data = image.data

----------------------------------------------------------------------------
(* calculateEdgeMapStep (pixelate.js): the GPU backend with its CPU fallback *)

\* the loop "for (i = 0; i < map.length; i += step) if (map[i] > 0) count++"
\* with step = Math.max(1, Math.floor(map.length / sampleSize))
SampledEdgeCount(map, sampleSize) ==
    LET step == IF sampleSize = 0 THEN 1 ELSE Max(1, Len(map) \div sampleSize)
    IN Cardinality({ i \in 0..(Len(map) - 1) :
                       i % step = 0 /\ EdgeGt(map[i + 1], EdgeZero) })

\* the GPU map is taken as it is whatever its length
GpuMapValidAnyLength(gpu, w, h) == gpu.kind = "map"

\* calculateEdgeMapWebGL returned a map and "edgeMap.length !== width * height"
\* is false
GpuMapValid(gpu, w, h) == gpu.kind = "map" /\ Len(gpu.data) = w * h

\* "edgeCount === 0 && sampleSize > 100": the CPU detector is tried as well
CpuRetried(gpu) ==
    LET sampleSize == Min(10000, Len(gpu.data))
    IN SampledEdgeCount(gpu.data, sampleSize) = 0 /\ sampleSize > 100

\* calculateEdgeMapStep(imageData, {edgeSharpness}) when calculateEdgeMapWebGL
\* behaves as gpu says: it returns null, throws, or returns the map gpu.data
calculateEdgeMapStep(img, sharp10, gpu) ==
    LET cpuEdgeMap == calculateEdgeMap(img, sharp10)
        sampleSize == Min(10000, Len(gpu.data))
    IN IF ~GpuMapValid(gpu, img.width, img.height)
       THEN [edgeMap |-> cpuEdgeMap, usingGPU |-> FALSE]
       ELSE IF CpuRetried(gpu) /\ SampledEdgeCount(cpuEdgeMap, sampleSize) > 0
       THEN [edgeMap |-> cpuEdgeMap, usingGPU |-> FALSE]
       ELSE [edgeMap |-> gpu.data, usingGPU |-> TRUE]

\* sizes of the images handed to calculateEdgeMapStep; the last has more
\* than 100 pixels
EdgeStepSizes == { <<3, 3>>, <<4, 4>>, <<11, 10>> }

\* the images tried: a uniform one, steps along x and along y, a ramp
EdgeStepImages(w, h) ==
    LET xs == 0..(w - 1)
        ys == 0..(h - 1)
    IN { PaintedImage(w, h, [x \in xs, y \in ys |-> 4]),
         PaintedImage(w, h, [x \in xs, y \in ys |-> IF x < 2 THEN 1 ELSE 5]),
         PaintedImage(w, h, [x \in xs, y \in ys |-> IF y < 1 THEN 2 ELSE 3]),
         PaintedImage(w, h, [x \in xs, y \in ys |-> 1 + ((x + 2 * y) % 5)]) }

\* what calculateEdgeMapWebGL may do on an image of n pixels: return null,
\* throw, or return a map: of a wrong length (with or without edges), or of
\* the right length and empty, with one edge, with the edges the CPU detector
\* finds, or with edges everywhere
GpuResults(n, cpuEdgeMap) ==
    { [kind |-> "null", data |-> <<>>], [kind |-> "throws", data |-> <<>>] }
    \cup { [kind |-> "map", data |-> d] :
             d \in { <<>>,
                     [i \in 1..(n - 1) |-> EdgeOne],
                     [i \in 1..(n + 1) |-> EdgeZero],
                     [i \in 1..n |-> EdgeZero],
                     [i \in 1..n |-> IF i = n THEN EdgeOne ELSE EdgeZero],
                     cpuEdgeMap,
                     [i \in 1..n |-> EdgeOne] } }

EdgeStepInit ==
    /\ \E sz \in EdgeStepSizes :
         /\ width = sz[1]
         /\ height = sz[2]
         /\ image \in EdgeStepImages(sz[1], sz[2])
    /\ edgeMap = [present |-> FALSE, data |-> <<>>]
    /\ grid = NoGrid
    /\ OptimizerUnused
    /\ renderArgs = [renderer |-> "none"]
    /\ output = [width |-> 0, height |-> 0, data |-> <<>>]
    /\ sampled = <<>>
    /\ writers = <<>>
    /\ painted = <<>>
    /\ StagesUnused

\* {edgeMap, usingGPU} = await calculateEdgeMapStep(imageData, {edgeSharpness})
CalculateEdgeMapStep ==
    /\ returned = "none"
    /\ \E sharp10 \in EdgeSharpnessTenths :
         LET cpuEdgeMap == calculateEdgeMap(image, sharp10)
         IN \E gpu \in GpuResults(image.width * image.height, cpuEdgeMap) :
               LET result == calculateEdgeMapStep(image, sharp10, gpu)
               IN /\ opts' = [opts EXCEPT !.edgeSharpness = sharp10]
                  /\ gpuResult' = gpu
                  /\ edgeMap' = [present |-> TRUE, data |-> result.edgeMap]
                  /\ usingGPU' = result.usingGPU
    /\ returned' = "edgeMapStep"
    /\ UNCHANGED <<width, height, gridSize, grid, pc, iteration, row, col, before,
                   calls, passes, renderVars, edgeCounts, heapVars, pipeVars, cellVars>>

EdgeStepNext == CalculateEdgeMapStep

SpecEdgeStep == EdgeStepInit /\ [][EdgeStepNext]_vars

\* the map the CPU detector computes for the image and the edgeSharpness of
\* the last call
CpuEdgeMapOfCall == calculateEdgeMap(image, opts.edgeSharpness)

\* C15: calculateEdgeMapStep never fails because of the GPU backend: when the
\* backend returns null, throws or returns a map whose length is not
\* width * height, the step returns the CPU edge map with usingGPU = false;
\* usingGPU = true is reported only with the map the GPU backend produced
C15_GpuFallback ==
    returned = "edgeMapStep" =>
        /\ edgeMap.present
        /\ (gpuResult.kind \in {"null", "throws"}
              \/ Len(gpuResult.data) # image.width * image.height) =>
                 (edgeMap.data = CpuEdgeMapOfCall /\ usingGPU = FALSE)
        /\ usingGPU = TRUE => (gpuResult.kind = "map" /\ edgeMap.data = gpuResult.data)

\* the backend returned a map of a wrong length that has edges in it, and
\* the step returned the CPU map, which has edges and differs from it
C15_Witness ==
    /\ returned = "edgeMapStep"
    /\ gpuResult.kind = "map"
    /\ Len(gpuResult.data) = image.width * image.height - 1
    /\ EdgeCount(gpuResult.data) > 0
    /\ edgeMap.data = CpuEdgeMapOfCall
    /\ EdgeCount(edgeMap.data) > 0
    /\ usingGPU = FALSE

\* C16: whenever the GPU backend returns a correctly sized edge map with no
\* edge-positive entry, calculateEdgeMapStep re-runs the CPU detector, for
\* every image size, and returns the CPU map (usingGPU = false) when that
\* map contains an edge
C16_EmptyGpuMapRetried ==
    (/\ returned = "edgeMapStep"
     /\ gpuResult.kind = "map"
     /\ Len(gpuResult.data) = image.width * image.height
     /\ EdgeCount(gpuResult.data) = 0
     /\ EdgeCount(CpuEdgeMapOfCall) > 0) =>
        (edgeMap.data = CpuEdgeMapOfCall /\ usingGPU = FALSE)

----------------------------------------------------------------------------
(* The stages on a heap of buffers: which buffer each stage writes           *)
(*                                                                          *)
(* A buffer is an ImageData or a Float32Array.  buffers holds every buffer  *)
(* allocated so far; a stage is handed the indices of its inputs and        *)
(* returns the index of its result.                                         *)

\* a buffer of the heap: type is "image", "magnitude", "direction" or
\* "edgeMap" (a binarized map), value is [width, height, data]
Buffer(type, w, h, data) == [type |-> type, value |-> [width |-> w, height |-> h, data |-> data]]

\* a stage that stores its result in the buffer it was handed
ResultBufferInPlace(heap, input) == input

\* the buffer a stage stores its result in: "new ImageData(width, height)",
\* "new Float32Array(width * height)"
ResultBuffer(heap, input) == Len(heap) + 1

\* the heap after the whole of buffer id is written
WriteBuffer(heap, id, buf) ==
    IF id > Len(heap) THEN Append(heap, buf) ELSE [heap EXCEPT ![id] = buf]

\* the whole-call form of optimizeGridCorners: the loop body at each of the
\* positions left, in order
RECURSIVE OptimizeFrom(_, _, _, _, _, _)
OptimizeFrom(g, data, w, h, o, positions) ==
    IF positions = {} THEN g
    ELSE LET p == LoopFirst(positions)
         IN OptimizeFrom(OptimizeOneCorner(g, data, w, h, o, p[1], p[2], p[3]),
                         data, w, h, o, positions \ {p})

\* optimizeGridCorners(grid, edgeMap, width, height, options)
optimizeGridCorners(g, em, w, h, o) ==
    IF ~ValidEdgeMap(em, w, h) THEN g
    ELSE OptimizeFrom(g, em.data, w, h, o, LoopPositions(g, o))

\* the entries of a binarized edge map as the optimizer (one == 1) and the
\* renderers (one == 10, tenths) of this model read them
EdgeUnits(data, one) ==
    Stored([i \in 1..Len(data) |-> IF EdgeGt(data[i], EdgeZero) THEN one ELSE 0])

\* Math.max(0, Math.min(255, Math.round((v - 128) * contrast + 128))) with
\* contrast = contrast2 / 2; Math.round rounds a half up
ContrastChannel(v, contrast2) ==
    Max(0, Min(255, ((v - 128) * contrast2 + 256 + 1) \div 2))

\* adjustContrast(imageData, contrast)
adjustContrast(img, contrast2) ==
    [width |-> img.width, height |-> img.height,
     data |-> Stored([k \in 1..Len(img.data) |->
                [r |-> ContrastChannel(img.data[k].r, contrast2),
                 g |-> ContrastChannel(img.data[k].g, contrast2),
                 b |-> ContrastChannel(img.data[k].b, contrast2),
                 a |-> img.data[k].a]])]

\* the pixel data of an ImageData as runs of one pixel, and back
PixelRuns(img) ==
    [img EXCEPT !.data = Stored([k \in 1..Len(img.data) |-> Run(1, img.data[k])])]
RunPixels(img) ==
    [img EXCEPT !.data = Stored([k \in 1..Len(img.data) |-> img.data[k].c])]

\* applyNonMaximumSuppression(magnitudeMap, directionMap, width, height) on
\* the heap
StageNonMaximumSuppression(heap, m, d) ==
    LET mag == heap[m].value
        out == ResultBuffer(heap, m)
    IN [heap |-> WriteBuffer(heap, out,
                    Buffer("magnitude", mag.width, mag.height,
                           applyNonMaximumSuppression(mag.data, heap[d].value.data,
                                                      mag.width, mag.height))),
        result |-> out]

\* applyThresholding(edgeMap, width, height, {threshold, binarize}) on the heap
StageThresholding(heap, e, thresholdNum, thresholdDen, binarize) ==
    LET map == heap[e].value
        out == ResultBuffer(heap, e)
    IN [heap |-> WriteBuffer(heap, out,
                    Buffer(IF binarize THEN "edgeMap" ELSE "magnitude", map.width, map.height,
                           applyThresholding(map.data, map.width, map.height,
                                             thresholdNum, thresholdDen, binarize))),
        result |-> out]

\* calculateEdgeMap on the heap: magnitudeMap and directionMap are allocated
\* and filled, applyNonMaximumSuppression and applyThresholding allocate
\* their results
StageCalculateEdgeMap(heap, i, sharp10) ==
    LET img          == heap[i].value
        grads        == Gradients(img)
        magnitudeMap == NormalizedMagnitudes(grads)
        suppressed   == applyNonMaximumSuppression(magnitudeMap, grads, img.width, img.height)
        thresholded  == applyThresholding(suppressed, img.width, img.height,
                                          10 + 5 * sharp10, 100, TRUE)
        m     == ResultBuffer(heap, i)
        heap1 == WriteBuffer(heap, m, Buffer("magnitude", img.width, img.height, magnitudeMap))
        d     == ResultBuffer(heap1, i)
        heap2 == WriteBuffer(heap1, d, Buffer("direction", img.width, img.height, grads))
        n     == ResultBuffer(heap2, m)
        heap3 == WriteBuffer(heap2, n, Buffer("magnitude", img.width, img.height, suppressed))
        t     == ResultBuffer(heap3, n)
    IN [heap |-> WriteBuffer(heap3, t, Buffer("edgeMap", img.width, img.height, thresholded)),
        result |-> t]

\* renderGrid and renderEdgeAwarePixelsStep write a new ImageData
StageRenderGrid(heap, i, g, sharp10) ==
    LET out == ResultBuffer(heap, i)
    IN [heap |-> WriteBuffer(heap, out,
                    [type |-> "image", value |-> renderGrid(g, heap[i].value, sharp10).output]),
        result |-> out]

StageRenderEdgeAware(heap, i, e, pixelSize, sharp10) ==
    LET out == ResultBuffer(heap, i)
    IN [heap |-> WriteBuffer(heap, out,
                    [type |-> "image",
                     value |-> renderEdgeAwarePixelsStep(heap[i].value,
                                  EdgeUnits(heap[e].value.data, 10), pixelSize, sharp10).output]),
        result |-> out]

\* adjustContrastStep(imageData, contrast): the input itself for contrast 1.0
StageAdjustContrast(heap, i, contrast2) ==
    IF contrast2 = 2 THEN [heap |-> heap, result |-> i]
    ELSE LET out == ResultBuffer(heap, i)
         IN [heap |-> WriteBuffer(heap, out,
                         [type |-> "image", value |-> adjustContrast(heap[i].value, contrast2)]),
             result |-> out]

\* quantizeColorsStep(imageData, colorLimit): the input itself without a limit
StageQuantizeColors(heap, i, colorLimit) ==
    IF colorLimit <= 0 THEN [heap |-> heap, result |-> i]
    ELSE LET out == ResultBuffer(heap, i)
         IN [heap |-> WriteBuffer(heap, out,
                         [type |-> "image",
                          value |-> RunPixels(quantizeColors(PixelRuns(heap[i].value), colorLimit))]),
             result |-> out]

\* largest number of stage calls made on one heap
MaxStageCalls == 2

\* the source images of the heap: a step along x, a ramp, a dark ramp
StageImages ==
    LET xs == 0..3
        ys == 0..2
    IN { PaintedImage(4, 3, [x \in xs, y \in ys |-> IF x < 2 THEN 2 ELSE 5]),
         PaintedImage(4, 3, [x \in xs, y \in ys |-> 1 + ((x + 2 * y) % 5)]),
         PaintedImage(4, 3, [x \in xs, y \in ys |-> 6 + ((x * x + 3 * y) % 4)]) }

\* the edge maps in the heap at the start: none, or one with a vertical line
StageEdgeMaps(w, h) ==
    { <<>>,
      << Buffer("edgeMap", w, h, [i \in 1..(w * h) |-> IF (i - 1) % w = 1 THEN EdgeOne ELSE EdgeZero]) >> }

\* the parameters the stages are called with
StageSharpness == {8}
StageContrasts == {2, 3}
StageColorLimits == {0, 2}

\* the indices of the buffers of some types
BuffersOf(heap, types) == { i \in 1..Len(heap) : heap[i].type \in types }

StagesInit ==
    /\ \E img \in StageImages :
         /\ image = img
         /\ width = img.width
         /\ height = img.height
         /\ grid = createInitialGrid(img.width, img.height, 2)
         /\ \E maps \in StageEdgeMaps(img.width, img.height) :
               buffers = << [type |-> "image", value |-> img] >> \o maps
    /\ gridSize = 2
    /\ edgeMap = [present |-> FALSE, data |-> <<>>]
    /\ opts = DefaultOptions
    /\ pc = "idle"
    /\ iteration = 0
    /\ row = 0
    /\ col = 0
    /\ before = grid
    /\ calls = 0
    /\ passes = 0
    /\ returned = "none"
    /\ renderArgs = [renderer |-> "none"]
    /\ output = [width |-> 0, height |-> 0, data |-> <<>>]
    /\ sampled = <<>>
    /\ writers = <<>>
    /\ painted = <<>>
    /\ edgeCounts = {}
    /\ gpuResult = [kind |-> "none"]
    /\ usingGPU = FALSE
    /\ lastStage = [stage |-> "none"]
    /\ stageCalls = 0
    /\ pipeStage = "none"
    /\ pipeOptions = [pixelizationFactor |-> 0]
    /\ CellsUnused

\* what every stage call leaves alone
StageFrame ==
    /\ stageCalls' = stageCalls + 1
    /\ UNCHANGED <<width, height, gridSize, edgeMap, opts, pc, iteration, row, col,
                   before, calls, passes, returned, renderVars, edgeCounts, stepVars, pipeVars, cellVars>>

\* the call stored its result: the heap after it and the record of the call
StageDone(stage, inputs, run) ==
    /\ buffers' = run.heap
    /\ lastStage' = [stage |-> stage, inputs |-> inputs, result |-> run.result]

CallCalculateEdgeMap ==
    /\ stageCalls < MaxStageCalls
    /\ \E i \in BuffersOf(buffers, {"image"}), sharp10 \in StageSharpness :
         StageDone("calculateEdgeMap", {i}, StageCalculateEdgeMap(buffers, i, sharp10))
    /\ UNCHANGED grid
    /\ StageFrame

CallNonMaximumSuppression ==
    /\ stageCalls < MaxStageCalls
    /\ \E m \in BuffersOf(buffers, {"magnitude", "edgeMap"}),
          d \in BuffersOf(buffers, {"direction"}) :
         StageDone("applyNonMaximumSuppression", {m, d},
                   StageNonMaximumSuppression(buffers, m, d))
    /\ UNCHANGED grid
    /\ StageFrame

CallThresholding ==
    /\ stageCalls < MaxStageCalls
    /\ \E e \in BuffersOf(buffers, {"magnitude", "edgeMap"}), binarize \in BOOLEAN :
         StageDone("applyThresholding", {e}, StageThresholding(buffers, e, 50, 100, binarize))
    /\ UNCHANGED grid
    /\ StageFrame

CallOptimizeGridCorners ==
    /\ stageCalls < MaxStageCalls
    /\ \E e \in BuffersOf(buffers, {"edgeMap"}) :
         /\ grid' = optimizeGridCorners(grid,
                       [present |-> TRUE, data |-> EdgeUnits(buffers[e].value.data, 1)],
                       width, height, DefaultOptions)
         /\ StageDone("optimizeGridCorners", {e}, [heap |-> buffers, result |-> 0])
    /\ StageFrame

CallRenderGrid ==
    /\ stageCalls < MaxStageCalls
    /\ \E i \in BuffersOf(buffers, {"image"}), sharp10 \in StageSharpness :
         StageDone("renderGrid", {i}, StageRenderGrid(buffers, i, grid, sharp10))
    /\ UNCHANGED grid
    /\ StageFrame

CallRenderEdgeAware ==
    /\ stageCalls < MaxStageCalls
    /\ \E i \in BuffersOf(buffers, {"image"}), e \in BuffersOf(buffers, {"edgeMap"}),
          sharp10 \in StageSharpness :
         StageDone("renderEdgeAwarePixelsStep", {i, e},
                   StageRenderEdgeAware(buffers, i, e, 2, sharp10))
    /\ UNCHANGED grid
    /\ StageFrame

CallAdjustContrast ==
    /\ stageCalls < MaxStageCalls
    /\ \E i \in BuffersOf(buffers, {"image"}), contrast2 \in StageContrasts :
         StageDone("adjustContrastStep", {i}, StageAdjustContrast(buffers, i, contrast2))
    /\ UNCHANGED grid
    /\ StageFrame

CallQuantizeColors ==
    /\ stageCalls < MaxStageCalls
    /\ \E i \in BuffersOf(buffers, {"image"}), colorLimit \in StageColorLimits :
         StageDone("quantizeColorsStep", {i}, StageQuantizeColors(buffers, i, colorLimit))
    /\ UNCHANGED grid
    /\ StageFrame

StagesNext ==
    \/ CallCalculateEdgeMap
    \/ CallNonMaximumSuppression
    \/ CallThresholding
    \/ CallOptimizeGridCorners
    \/ CallRenderGrid
    \/ CallRenderEdgeAware
    \/ CallAdjustContrast
    \/ CallQuantizeColors

SpecStages == StagesInit /\ [][StagesNext]_vars

\* C17: no stage writes into the pixel buffer or the edge map it receives:
\* every buffer that exists when a stage is called is element-wise the same
\* when the stage returns, and results go to newly created buffers
C17_InputsUnchanged ==
    [][\A b \in 1..Len(buffers) : b <= Len(buffers') /\ buffers'[b] = buffers[b]]_vars

\* a stage returned a new buffer whose contents differ from its input's
C17_Witness ==
    /\ lastStage.stage \in {"applyThresholding", "adjustContrastStep", "quantizeColorsStep",
                            "renderEdgeAwarePixelsStep"}
    /\ lastStage.result > 0
    /\ \A i \in lastStage.inputs :
          /\ lastStage.result # i
          /\ buffers[lastStage.result].value.data # buffers[i].value.data

----------------------------------------------------------------------------
(* pixelateImageEdgeAware (pixelate.js): the whole pipeline.  The options   *)
(* useSplines, onProgress and returnCanvas keep their defaults.             *)

\* Math.max(searchSteps, Math.floor(9 + edgeSharpness * 16))
EffectiveSearchSteps(searchSteps, sharp10) ==
    Max(searchSteps, (90 + 16 * sharp10) \div 10)

\* Math.max(numIterations, Math.floor(2 + edgeSharpness * 3))
EffectiveIterations(numIterations, sharp10) ==
    Max(numIterations, (20 + 3 * sharp10) \div 10)

\* Math.max(1, pixelizationFactor * 0.3 * (0.5 + edgeSharpness * 1.5)), in
\* thousandths of a pixel
EffectiveStepSize(pixelizationFactor, sharp10) ==
    Max(1000, pixelizationFactor * 3 * (50 + 15 * sharp10))

\* the options pixelateImageEdgeAware hands to optimizeGridStep: the
\* effective values, raised once more when captureIntermediates is set
\* (vizStepSize, vizSearchSteps, vizIterations); stepSize in thousandths
PipelineOptimizerOptions(po) ==
    LET step  == EffectiveStepSize(po.pixelizationFactor, po.edgeSharpness)
        steps == EffectiveSearchSteps(po.searchSteps, po.edgeSharpness)
        iters == EffectiveIterations(po.numIterations, po.edgeSharpness)
    IN [searchSteps   |-> IF po.captureIntermediates THEN Max(steps, 25) ELSE steps,
        numIterations |-> IF po.captureIntermediates THEN Max(iters, 4) ELSE iters,
        stepSize      |-> IF po.captureIntermediates
                          THEN Max(step, po.pixelizationFactor * 500) ELSE step,
        edgeSharpness |-> po.edgeSharpness]

\* the options optimizeGridStep hands to optimizeGridCorners, given the
\* options o it was called with (o.stepSize in thousandths, a whole number
\* of pixels)
optimizeGridStep(o) ==
    [searchSteps   |-> EffectiveSearchSteps(o.searchSteps, o.edgeSharpness),
     numIterations |-> EffectiveIterations(o.numIterations, o.edgeSharpness),
     stepSize      |-> o.stepSize \div 1000,
     edgeSharpness |-> o.edgeSharpness]

\* the offsets (dx, dy) of the edge pixels around (px, py) that the search
\* "in expanding squares" of radius 1..searchRadius looks at
SnapCandidates(data, w, h, px, py, searchRadius) ==
    { d \in (-searchRadius..searchRadius) \X (-searchRadius..searchRadius) :
        /\ px + d[1] >= 0 /\ px + d[1] < w
        /\ py + d[2] >= 0 /\ py + d[2] < h
        /\ data[(py + d[2]) * w + (px + d[1]) + 1] > 0 }

\* dx * dx + dy * dy
SnapDistSq(d) == d[1] * d[1] + d[2] * d[2]

\* the first square r >= 1 of the search that holds the offset d
SnapSquare(d) == Max(1, Max(Max(d[1], -d[1]), Max(d[2], -d[2])))

\* d replaces e as the best offset, or e never replaces d: d is nearer, or as
\* near and met first by the loops over r, dy and dx ("dist < bestDist")
SnapBefore(d, e) ==
    \/ SnapDistSq(d) < SnapDistSq(e)
    \/ /\ SnapDistSq(d) = SnapDistSq(e)
       /\ \/ SnapSquare(d) < SnapSquare(e)
          \/ SnapSquare(d) = SnapSquare(e) /\ d[2] < e[2]
          \/ SnapSquare(d) = SnapSquare(e) /\ d[2] = e[2] /\ d[1] < e[1]

\* the corner after "corner.x = px + bestDx; corner.y = py + bestDy", done
\* when "bestDist < Infinity && bestDist > 0"
SnapCorner(corner, data, w, h, searchRadius) ==
    LET px    == corner.x \div Scale
        py    == corner.y \div Scale
        cands == SnapCandidates(data, w, h, px, py, searchRadius)
    IN IF cands = {} THEN corner
       ELSE LET best == CHOOSE d \in cands : \A e \in cands : e = d \/ SnapBefore(d, e)
            IN IF SnapDistSq(best) > 0
               THEN [corner EXCEPT !.x = (px + best[1]) * Scale,
                                   !.y = (py + best[2]) * Scale]
               ELSE corner

\* the block "Force visible movement for inner corners based on edge
\* proximity" that follows optimizeGridStep: it runs when captureIntermediates
\* is set and the edge map has an edge; searchRadius = Math.ceil(pixelizationFactor)
ForceVisibleMovement(g, data, w, h, po) ==
    IF ~(po.captureIntermediates /\ \E i \in 1..Len(data) : data[i] > 0) THEN g
    ELSE [g EXCEPT !.corners =
            [r \in 1..Len(g.corners) |->
               [c \in 1..Len(g.corners[r]) |->
                  IF (r - 1) \in LoopRows(Len(g.corners)) /\ (c - 1) \in LoopCols(Len(g.corners[r]))
                  THEN SnapCorner(g.corners[r][c], data, w, h, po.pixelizationFactor)
                  ELSE g.corners[r][c]]]]

\* largest numIterations option handed to the pipeline
MaxPipelineIterations == 2

\* the source images: 4 x 4 with a step after column 0 and of one colour,
\* 6 x 4 with a ramp
PipelineImages ==
    { PaintedImage(4, 4, [x \in 0..3, y \in 0..3 |-> IF x < 1 THEN 1 ELSE 5]),
      PaintedImage(4, 4, [x \in 0..3, y \in 0..3 |-> 4]),
      PaintedImage(6, 4, [x \in 0..5, y \in 0..3 |-> 1 + ((x + 2 * y) % 5)]) }

\* the option combinations tried.  edgeSharpness is 0 or 0.4 (for these the
\* percentile index Math.ceil(n * threshold) of the doubles is the exact one
\* on images of fewer than 10 interior pixels); only combinations whose step
\* size is a whole number of pixels are kept
PipelineOptions ==
    { po \in [ pixelizationFactor   : {2},
               searchSteps          : {9},
               numIterations        : 1..MaxPipelineIterations,
               edgeSharpness        : {0, 4},
               captureIntermediates : BOOLEAN,
               contrast2            : {2, 3},
               colorLimit           : {0, 2} ] :
        PipelineOptimizerOptions(po).stepSize % 1000 = 0 }

\* what calculateEdgeMapWebGL does in the pipeline: it returns null, or a
\* map with one edge, at the last pixel
PipelineGpuResults(n) ==
    { [kind |-> "null", data |-> <<>>],
      [kind |-> "map", data |-> [i \in 1..n |-> IF i = n THEN EdgeOne ELSE EdgeZero]] }

PipelineInit ==
    /\ image \in PipelineImages
    /\ width = image.width
    /\ height = image.height
    /\ pipeOptions \in PipelineOptions
    /\ CellsUnused
    /\ gridSize = pipeOptions.pixelizationFactor
    /\ pipeStage = "start"
    /\ grid = NoGrid
    /\ edgeMap = [present |-> FALSE, data |-> <<>>]
    /\ opts = DefaultOptions
    /\ pc = "idle"
    /\ iteration = 0
    /\ row = 0
    /\ col = 0
    /\ before = grid
    /\ calls = 0
    /\ passes = 0
    /\ returned = "none"
    /\ renderArgs = [renderer |-> "none"]
    /\ output = [width |-> 0, height |-> 0, data |-> <<>>]
    /\ sampled = <<>>
    /\ writers = <<>>
    /\ painted = <<>>
    /\ edgeCounts = {}
    /\ gpuResult = [kind |-> "none"]
    /\ usingGPU = FALSE
    /\ buffers = <<>>
    /\ lastStage = [stage |-> "none"]
    /\ stageCalls = 0

\* {edgeMap, usingGPU} = await calculateEdgeMapStep(imageData, {edgeSharpness});
\* the map is kept as the optimizer reads it, 1 at an edge and 0 elsewhere
PipeCalculateEdgeMap ==
    /\ pipeStage = "start"
    /\ \E gpu \in PipelineGpuResults(width * height) :
         LET result == calculateEdgeMapStep(image, pipeOptions.edgeSharpness, gpu)
         IN /\ gpuResult' = gpu
            /\ edgeMap' = [present |-> TRUE, data |-> EdgeUnits(result.edgeMap, 1)]
            /\ usingGPU' = result.usingGPU
    /\ pipeStage' = "edgeMap"
    /\ UNCHANGED <<width, height, gridSize, grid, opts, pc, iteration, row, col, before,
                   calls, passes, returned, renderVars, edgeCounts, heapVars, pipeOptions, cellVars>>

\* grid = createGridStep(imageData, pixelizationFactor)
PipeCreateGrid ==
    /\ pipeStage = "edgeMap"
    /\ grid' = createInitialGrid(width, height, pipeOptions.pixelizationFactor)
    /\ pipeStage' = "grid"
    /\ UNCHANGED <<width, height, gridSize, edgeMap, opts, pc, iteration, row, col, before,
                   calls, passes, returned, renderVars, edgeCounts, stepVars, heapVars,
                   pipeOptions, cellVars>>

\* optimizeGridStep({grid, edgeMap, imageData}, {...}): the entry into
\* optimizeGridCorners with the options optimizeGridStep makes of its own;
\* the passes of the loop are the steps OptimizeCorner
PipeOptimizeGridStep ==
    /\ pipeStage = "grid"
    /\ LET o == optimizeGridStep(PipelineOptimizerOptions(pipeOptions))
       IN /\ opts' = o
          /\ IF ~ValidEdgeMap(edgeMap, width, height)
             THEN /\ returned' = "invalid"
                  /\ UNCHANGED <<pc, iteration, row, col>>
             ELSE IF LoopPositions(grid, o) = {}
             THEN /\ returned' = "done"
                  /\ UNCHANGED <<pc, iteration, row, col>>
             ELSE LET p == LoopFirst(LoopPositions(grid, o))
                  IN /\ pc' = "loop"
                     /\ iteration' = p[1]
                     /\ row' = p[2]
                     /\ col' = p[3]
                     /\ returned' = "none"
    /\ before' = grid
    /\ calls' = calls + 1
    /\ passes' = 0
    /\ pipeStage' = "optimize"
    /\ UNCHANGED <<width, height, gridSize, grid, edgeMap, renderVars, edgeCounts, stepVars,
                   heapVars, pipeOptions, cellVars>>

\* the code between the return of optimizeGridStep and the renderer
PipeForceVisibleMovement ==
    /\ pipeStage = "optimize"
    /\ pc = "idle"
    /\ grid' = ForceVisibleMovement(grid, edgeMap.data, width, height, pipeOptions)
    /\ pipeStage' = "optimized"
    /\ UNCHANGED <<width, height, gridSize, edgeMap, opts, pc, iteration, row, col, before,
                   calls, passes, returned, renderVars, edgeCounts, stepVars, heapVars,
                   pipeOptions, cellVars>>

\* outputImageData = renderEdgeAwarePixelsStep(imageData, edgeMap,
\* pixelizationFactor, edgeSharpness)
PipeRender ==
    /\ pipeStage = "optimized"
    /\ LET run == renderEdgeAwarePixelsStep(image,
                      Stored([i \in 1..Len(edgeMap.data) |-> 10 * edgeMap.data[i]]),
                      pipeOptions.pixelizationFactor, pipeOptions.edgeSharpness)
       IN /\ renderArgs' = [renderer |-> "renderEdgeAwarePixels",
                            pixelSize |-> pipeOptions.pixelizationFactor,
                            edgeSharpness |-> pipeOptions.edgeSharpness]
          /\ output' = run.output
          /\ writers' = run.writers
    /\ pipeStage' = "rendered"
    /\ UNCHANGED <<optVars, image, sampled, painted, edgeCounts, stepVars, heapVars,
                   pipeOptions, cellVars>>

\* outputImageData = adjustContrastStep(outputImageData, contrast)
PipeAdjustContrast ==
    /\ pipeStage = "rendered"
    /\ output' = IF pipeOptions.contrast2 = 2 THEN output
                 ELSE adjustContrast(output, pipeOptions.contrast2)
    /\ pipeStage' = "contrast"
    /\ UNCHANGED <<optVars, image, renderArgs, sampled, writers, painted, edgeCounts,
                   stepVars, heapVars, pipeOptions, cellVars>>

\* outputImageData = quantizeColorsStep(outputImageData, colorLimit)
PipeQuantizeColors ==
    /\ pipeStage = "contrast"
    /\ output' = RunPixels(quantizeColorsStep(PixelRuns(output), pipeOptions.colorLimit))
    /\ pipeStage' = "done"
    /\ UNCHANGED <<optVars, image, renderArgs, sampled, writers, painted, edgeCounts,
                   stepVars, heapVars, pipeOptions, cellVars>>

PipelineNext ==
    \/ PipeCalculateEdgeMap
    \/ PipeCreateGrid
    \/ PipeOptimizeGridStep
    \/ OptimizeCorner
    \/ PipeForceVisibleMovement
    \/ PipeRender
    \/ PipeAdjustContrast
    \/ PipeQuantizeColors

SpecPipeline == PipelineInit /\ [][PipelineNext]_vars

\* C18: in a pixelateImageEdgeAware run, with captureIntermediates set or
\* not, the x and y of the corners of the grid change only in a step of the
\* loop of optimizeGridCorners; no other step of the pipeline writes them
C18_CornersWrittenOnlyByOptimizer ==
    [][(pipeStage # "none" /\ grid # NoGrid /\ grid'.corners # grid.corners)
          => pc = "loop"]_vars

\* the number of interior corners of the grid
InteriorCorners(g) ==
    Cardinality(LoopRows(Len(g.corners)) \X LoopCols(Len(g.corners[1])))

\* C19: a pipeline run configured with numIterations = n makes exactly n
\* passes over the interior corners, whatever edgeSharpness is
C19_ExactlyConfiguredPasses ==
    (pipeStage \notin {"none", "start", "edgeMap", "grid"} /\ returned = "done") =>
        passes = pipeOptions.numIterations * InteriorCorners(grid)

----------------------------------------------------------------------------
(* applyThresholding (edgeDetection.js) with all its options: simple and   *)
(* hysteresis thresholding.  Thresholds and map entries are given in       *)
(* eighths, which Float32Array entries and doubles hold exactly.           *)

\* highThreshold = null, lowThreshold = null
NoThreshold == -1

\* the entry and the threshold v8 / 8
Eighths(v8) == EdgeValue(v8 * v8, 64)

\* actualHighThreshold, actualLowThreshold for the threshold t8 / 8: with
\* usePercentile, nonZeroValues[Math.max(0, Math.floor(n * (1 - t)) - 1)] || 0
HysteresisThreshold(edges, t8, usePercentile) ==
    LET nonZeroValues == SelectSeq(edges, LAMBDA v : EdgeGt(v, EdgeZero))
        n == Len(nonZeroValues)
        index == (n * (8 - t8)) \div 8
    IN IF usePercentile /\ n > 0
       THEN SortedEdgeAt(nonZeroValues, Max(0, index - 1))
       ELSE Eighths(t8)

\* the indices (from 1) of the 8-connected neighbours of pixel i inside the
\* image
Neighbors8(i, w, h) ==
    LET x == (i - 1) % w
        y == (i - 1) \div w
    IN { ny * w + nx + 1 :
           <<nx, ny>> \in { p \in ((x - 1)..(x + 1)) \X ((y - 1)..(y + 1)) :
                              /\ p # <<x, y>>
                              /\ p[1] >= 0 /\ p[1] < w
                              /\ p[2] >= 0 /\ p[2] < h } }

\* "if (strongEdges.has(neighborIdx)) connected = true" over the 8 neighbours
LinkedToStrong(i, w, h, strongEdges) ==
    Neighbors8(i, w, h) \cap strongEdges # {}

\* the hysteresis branch of applyThresholding
applyHysteresis(edges, w, h, high8, low8, usePercentile, binarize) ==
    LET actualHighThreshold == HysteresisThreshold(edges, high8, usePercentile)
        actualLowThreshold  == HysteresisThreshold(edges, low8, usePercentile)
        strongEdges == { i \in 1..Len(edges) : EdgeGeq(edges[i], actualHighThreshold) }
        weakEdges   == { i \in 1..Len(edges) :
                           i \notin strongEdges /\ EdgeGeq(edges[i], actualLowThreshold) }
    IN Stored([i \in 1..Len(edges) |->
                 IF i \in strongEdges THEN Kept(edges[i], binarize)
                 ELSE IF i \in weakEdges /\ LinkedToStrong(i, w, h, strongEdges)
                 THEN Kept(edges[i], binarize)
                 ELSE EdgeZero])

\* applyThresholding(edgeMap, width, height, options) with the default
\* threshold 0.1; o = [highThreshold, lowThreshold, usePercentile, binarize]
applyThresholdingWith(edges, w, h, o) ==
    IF /\ o.highThreshold # NoThreshold
       /\ o.lowThreshold # NoThreshold
       /\ o.highThreshold > o.lowThreshold
    THEN applyHysteresis(edges, w, h, o.highThreshold, o.lowThreshold,
                         o.usePercentile, o.binarize)
    ELSE LET actualThreshold == IF o.usePercentile THEN ActualThreshold(edges, 1, 10)
                                ELSE EdgeValue(1, 100)
         IN Stored([i \in 1..Len(edges) |->
                      IF EdgeGeq(edges[i], actualThreshold) THEN Kept(edges[i], o.binarize)
                      ELSE EdgeZero])

\* the maps thresholded: 4 x 1 over the entries 0, 2/8, 4/8 and 7/8, and
\* 3 x 2 over 0, 4/8 and 7/8
ThresholdMaps ==
    { Buffer("magnitude", 4, 1, [i \in 1..4 |-> Eighths(f[i])]) :
        f \in [1..4 -> {0, 2, 4, 7}] }
    \cup { Buffer("magnitude", 3, 2, [i \in 1..6 |-> Eighths(f[i])]) :
             f \in [1..6 -> {0, 4, 7}] }

\* the options tried: no thresholds, high above low (3/8 and 6/8), and low
\* above high
ThresholdOptions ==
    [ highThreshold : {NoThreshold, 3, 6},
      lowThreshold  : {NoThreshold, 3},
      usePercentile : BOOLEAN,
      binarize      : BOOLEAN ]

ThresholdInit ==
    /\ \E map \in ThresholdMaps :
         /\ buffers = << map >>
         /\ width = map.value.width
         /\ height = map.value.height
    /\ image = [width |-> 0, height |-> 0, data |-> <<>>]
    /\ edgeMap = [present |-> FALSE, data |-> <<>>]
    /\ grid = NoGrid
    /\ OptimizerUnused
    /\ renderArgs = [renderer |-> "none"]
    /\ output = [width |-> 0, height |-> 0, data |-> <<>>]
    /\ sampled = <<>>
    /\ writers = <<>>
    /\ painted = <<>>
    /\ edgeCounts = {}
    /\ gpuResult = [kind |-> "none"]
    /\ usingGPU = FALSE
    /\ lastStage = [stage |-> "none"]
    /\ stageCalls = 0
    /\ pipeStage = "none"
    /\ pipeOptions = [pixelizationFactor |-> 0]
    /\ CellsUnused

\* thresholded = applyThresholding(edgeMap, width, height, options)
ApplyThresholding ==
    /\ stageCalls = 0
    /\ \E o \in ThresholdOptions :
         LET map == buffers[1].value
             out == ResultBuffer(buffers, 1)
         IN /\ buffers' = WriteBuffer(buffers, out,
                             Buffer(IF o.binarize THEN "edgeMap" ELSE "magnitude",
                                    map.width, map.height,
                                    applyThresholdingWith(map.data, map.width, map.height, o)))
            /\ lastStage' = [stage |-> "applyThresholding", inputs |-> {1},
                             result |-> out, options |-> o]
    /\ stageCalls' = stageCalls + 1
    /\ UNCHANGED <<optVars, renderVars, edgeCounts, stepVars, pipeVars, cellVars>>

ThresholdNext == ApplyThresholding

SpecThreshold == ThresholdInit /\ [][ThresholdNext]_vars

\* the call made was in hysteresis mode with absolute thresholds
HysteresisCall ==
    /\ lastStage.stage = "applyThresholding"
    /\ lastStage.options.highThreshold # NoThreshold
    /\ lastStage.options.lowThreshold # NoThreshold
    /\ lastStage.options.highThreshold > lastStage.options.lowThreshold
    /\ ~lastStage.options.usePercentile

\* pixel i of the result of the call is kept: it holds its source value, or
\* 1.0 when binarize is set
KeptInResult(i) ==
    /\ buffers[lastStage.result].value.data[i] # EdgeZero
    /\ buffers[lastStage.result].value.data[i]
         = Kept(buffers[1].value.data[i], lastStage.options.binarize)

\* C20: in hysteresis mode with absolute thresholds, every pixel >= high is
\* kept, every pixel < low is zeroed, and a pixel in [low, high) is kept
\* exactly when one of its 8 neighbours is a kept pixel
C20_HysteresisLinksToKept ==
    HysteresisCall =>
        LET src  == buffers[1].value
            out  == buffers[lastStage.result].value
            high == Eighths(lastStage.options.highThreshold)
            low  == Eighths(lastStage.options.lowThreshold)
        IN \A i \in 1..Len(src.data) :
              IF EdgeGeq(src.data[i], high) THEN KeptInResult(i)
              ELSE IF ~EdgeGeq(src.data[i], low) THEN out.data[i] = EdgeZero
              ELSE /\ KeptInResult(i) \/ out.data[i] = EdgeZero
                   /\ KeptInResult(i) <=>
                        \E j \in Neighbors8(i, src.width, src.height) : KeptInResult(j)

\* the call made was in hysteresis mode with percentile thresholds
PercentileHysteresisCall ==
    /\ lastStage.stage = "applyThresholding"
    /\ lastStage.options.highThreshold # NoThreshold
    /\ lastStage.options.lowThreshold # NoThreshold
    /\ lastStage.options.highThreshold > lastStage.options.lowThreshold
    /\ lastStage.options.usePercentile

\* C30: in hysteresis mode with percentile thresholds and highThreshold >
\* lowThreshold, the effective high cut-off (actualHighThreshold) is >= the
\* effective low cut-off (actualLowThreshold), for every edge map
C30_HighCutoffAtLeastLow ==
    PercentileHysteresisCall =>
        EdgeGeq(HysteresisThreshold(buffers[1].value.data, lastStage.options.highThreshold, TRUE),
                HysteresisThreshold(buffers[1].value.data, lastStage.options.lowThreshold, TRUE))

----------------------------------------------------------------------------
(* getEdgeStrength (edgeDetection.js) as a state machine: lookups at       *)
(* coordinates given in halves of a pixel, inside and around the image.    *)

\* getEdgeStrength(edgeMap, width, x, y) at x = x2 / 2, y = y2 / 2:
\* idx = Math.floor(y) * width + Math.floor(x);
\* if (idx < 0 || idx >= edgeMap.length) return 0; return edgeMap[idx]
getEdgeStrength(data, w, x2, y2) ==
    LET idx == (y2 \div 2) * w + (x2 \div 2)
    IN IF idx < 0 \/ idx >= Len(data) THEN 0 ELSE data[idx + 1]

\* the image sizes of the lookups
LookupSizes == { <<3, 2>>, <<2, 3>>, <<4, 1>> }

\* lookups made per run
MaxLookups == 2

\* the maps of the lookups: no edge, and a map whose entry at index i is i + 1
LookupMaps(w, h) ==
    { [present |-> TRUE, data |-> [i \in 1..(w * h) |-> 0]],
      [present |-> TRUE, data |-> [i \in 1..(w * h) |-> i]] }

\* the coordinates tried, in halves: from one pixel before the image to
\* one pixel after it
LookupCoordinates(n) == (-2)..(2 * n + 1)

LookupInit ==
    /\ StagesUnused
    /\ RenderUnused
    /\ \E sz \in LookupSizes :
         /\ width = sz[1]
         /\ height = sz[2]
         /\ edgeMap \in LookupMaps(sz[1], sz[2])
    /\ grid = NoGrid
    /\ OptimizerUnused

\* strength = getEdgeStrength(edgeMap, width, x, y)
GetEdgeStrength ==
    /\ lookups < MaxLookups
    /\ \E x2 \in LookupCoordinates(width), y2 \in LookupCoordinates(height) :
         lookup' = [fn |-> "getEdgeStrength", x2 |-> x2, y2 |-> y2,
                    result |-> getEdgeStrength(edgeMap.data, width, x2, y2)]
    /\ lookups' = lookups + 1
    /\ UNCHANGED <<optVars, renderVars, edgeCounts, stepVars, heapVars, pipeVars, splineCache>>

LookupNext == GetEdgeStrength

SpecLookup == LookupInit /\ [][LookupNext]_vars

\* the coordinate (x2 / 2, y2 / 2) is outside the image
OutsideImage(x2, y2) == x2 < 0 \/ x2 >= 2 * width \/ y2 < 0 \/ y2 >= 2 * height

\* C26: getEdgeStrength returns 0 for every coordinate outside the image
\* (x < 0, x >= width, y < 0 or y >= height), whatever the edge map holds,
\* and edgeMap[y * width + x] for in-range integer coordinates
C26_ZeroOutsideImage ==
    lookup.fn = "getEdgeStrength" =>
        /\ OutsideImage(lookup.x2, lookup.y2) => lookup.result = 0
        /\ (~OutsideImage(lookup.x2, lookup.y2) /\ lookup.x2 % 2 = 0 /\ lookup.y2 % 2 = 0) =>
              lookup.result = edgeMap.data[(lookup.y2 \div 2) * width + (lookup.x2 \div 2) + 1]

----------------------------------------------------------------------------
(* Repeated calls of optimizeGridCorners on one grid *)

\* calls made on one grid
MaxCalls == 2

\* the option records of the repeated calls: searchSteps 4 and the default
\* 9, at edgeSharpness 0 and 1
RepeatOptions ==
    [ searchSteps   : {4, 9},
      numIterations : {1},
      stepSize      : {1},
      edgeSharpness : {0, 10} ]

\* optimizeGridCorners(grid, edgeMap, width, height, options), called again
\* on the grid the last call left
OptimizeAgain == OptimizeCallFrom(RepeatOptions, MaxCalls)

CallsNext == OptimizeAgain \/ OptimizeCorner

SpecCalls == Init /\ [][CallsNext]_vars

\* the positions for which the loop body computes a score for the corner:
\* its current position (bestAlignment) and every candidate that passes
\* the two "continue" tests
ScoredPositions(corner, w, h, o) ==
    LET offs == SearchOffsets(o.searchSteps)
    IN { <<corner.x, corner.y>> }
       \cup { <<corner.x + offs[k][1] * o.stepSize * Scale,
                corner.y + offs[k][2] * o.stepSize * Scale>> :
                k \in { j \in 1..Len(offs) :
                          /\ ~(offs[j][1] = 0 /\ offs[j][2] = 0)
                          /\ InBounds(corner.x + offs[j][1] * o.stepSize * Scale,
                                      corner.y + offs[j][2] * o.stepSize * Scale, w, h) } }

\* C25: the positions scored for an interior corner in a pass lie on a
\* square grid of side floor(sqrt(searchSteps)), so that at most
\* searchSteps positions are scored per corner
C25_AtMostSearchStepsScored ==
    pc = "loop" =>
        LET scored == ScoredPositions(CornerAt(grid, row, col), width, height, opts)
        IN /\ Cardinality({ p[1] : p \in scored }) <= FloorSqrt(opts.searchSteps)
           /\ Cardinality({ p[2] : p \in scored }) <= FloorSqrt(opts.searchSteps)
           /\ Cardinality(scored) <= opts.searchSteps

\* C28: with edgeSharpness in [0,1], during and after any number of
\* optimizeGridCorners calls on a grid built by createInitialGrid every
\* corner is inside the image rectangle (0 <= x <= width, 0 <= y <= height;
\* interior corners x < width, y < height), and the damping factor of the
\* pass under way is in (0,1]
C28_CornersInsideImage ==
    /\ \A id \in CornerIds(grid) :
          LET c == CornerAt(grid, id[1], id[2])
          IN /\ 0 <= c.x /\ c.x <= width * Scale
             /\ 0 <= c.y /\ c.y <= height * Scale
             /\ ~IsBorder(grid, id[1], id[2]) => (c.x < width * Scale /\ c.y < height * Scale)
    /\ pc = "loop" =>
          /\ 0 < DampingNum(opts.edgeSharpness, iteration, opts.numIterations)
          /\ DampingNum(opts.edgeSharpness, iteration, opts.numIterations)
                <= DampingDen(opts.numIterations)

\* C28 witness: a second call at edgeSharpness 1 has returned after moving
\* a corner that an earlier call had already moved
C28_Witness ==
    /\ calls > 1 /\ returned = "done" /\ opts.edgeSharpness = 10
    /\ \E id \in CornerIds(grid) :
          /\ ~SamePosition(CornerAt(grid, id[1], id[2]), CornerAt(before, id[1], id[2]))
          /\ CornerAt(before, id[1], id[2]).x # CornerAt(before, id[1], id[2]).originalX

----------------------------------------------------------------------------
(* Claims about the renderers and the positions of the corners *)

\* the edge map as renderEdgeAwarePixelsStep receives it in the pipeline
PipelineEdgeMap == Stored([i \in 1..Len(edgeMap.data) |-> 10 * edgeMap.data[i]])

----------------------------------------------------------------------------
(* Curved cell boundaries (gridOptimization.js): getSplineControlPoints,    *)
(* evaluateBSpline, getOrCreateSplineCache and GridCell.getBounds.          *)
(*                                                                          *)
(* A control point is <<X, Y, D>>: the point (X / D, Y / D) in pixels.  A   *)
(* point of a curve is a pair of rationals in lowest terms, so that equal   *)
(* points are equal values.  The arithmetic is that of the reals: the       *)
(* square root of the edge length cancels in perp * clampedOffset.          *)

\* the greatest number of 1/Scale pixels of which the coordinates of the
\* corners qs are all multiples
CoordStep(qs) ==
    GCD(Scale, GCD(GCD(GCD(qs[1].x, qs[1].y), GCD(qs[2].x, qs[2].y)),
                   GCD(GCD(qs[3].x, qs[3].y), GCD(qs[4].x, qs[4].y))))

\* clampedOffset / edgeLength as a rational, for the edge vector (ex, ey)
\* and (tx, ty) = 2 * (toAdjX, toAdjY): with n = (-ey, ex) and L the edge
\* length, perp = n / L up to its sign, perpProjection = (toAdj . n) / L,
\* offset = -perpProjection * splineSmoothness * 0.4 and maxOffset = 0.2 * L;
\* the sign chosen for perp cancels in perp * clampedOffset
ClampedOffset(ex, ey, tx, ty, s10) ==
    LET dot2 == tx * (-ey) + ty * ex
        len2 == ex * ex + ey * ey
    IN IF s10 * Abs(dot2) >= 10 * len2
       THEN <<-Sign(dot2), 5>>
       ELSE RatNorm(-(s10 * dot2), 50 * len2)

\* the control point {x: controlX, y: controlY} of the edge from (ax, ay) to
\* (bx, by), coordinates in 1/u pixel, for clampedOffset / edgeLength = c
ControlPoint(ax, ay, bx, by, c, u) ==
    << (ax + bx) * c[2] + 2 * (ay - by) * c[1],
       (ay + by) * c[2] + 2 * (bx - ax) * c[1],
       2 * c[2] * u >>

\* getSplineControlPoints(corner1, corner2, prevCorner, nextCorner,
\* splineSmoothness) with splineSmoothness = s10 / 10 and the coordinates
\* divided by step: [corner1, control, corner2]
SplineControlPoints(ax, ay, bx, by, px, py, nx, ny, s10, u) ==
    << <<ax, ay, u>>,
       IF s10 = 0 \/ (ax = bx /\ ay = by)
       THEN <<ax + bx, ay + by, 2 * u>>
       ELSE ControlPoint(ax, ay, bx, by,
                         ClampedOffset(bx - ax, by - ay,
                                       px + nx - ax - bx, py + ny - ay - by, s10), u),
       <<bx, by, u>> >>

getSplineControlPoints(corner1, corner2, prevCorner, nextCorner, s10) ==
    LET step == CoordStep(<<corner1, corner2, prevCorner, nextCorner>>)
    IN SplineControlPoints(corner1.x \div step, corner1.y \div step,
                           corner2.x \div step, corner2.y \div step,
                           prevCorner.x \div step, prevCorner.y \div step,
                           nextCorner.x \div step, nextCorner.y \div step,
                           s10, Scale \div step)

\* the least common denominator of the control points from index k on
RECURSIVE CommonDenominator(_, _)
CommonDenominator(cps, k) ==
    IF k > Len(cps) THEN 1 ELSE LCM(cps[k][3], CommonDenominator(cps, k + 1))

\* sum over the control points from index k on of weights[k] times the
\* coordinate xy (1 for x, 2 for y), as a multiple of 1 / den
RECURSIVE WeightedSum(_, _, _, _, _)
WeightedSum(weights, cps, xy, den, k) ==
    IF k > Len(weights) THEN 0
    ELSE weights[k] * cps[k][xy] * (den \div cps[k][3])
         + WeightedSum(weights, cps, xy, den, k + 1)

\* the point sum of (weights[k] / wden) * controlPoints[k]
WeightedPoint(weights, wden, cps, den) ==
    << RatNorm(WeightedSum(weights, cps, 1, den, 1), wden * den),
       RatNorm(WeightedSum(weights, cps, 2, den, 1), wden * den) >>

\* evaluateBSpline(t, controlPoints, degree) at t = i / n
evaluateBSpline(i, n, controlPoints, degree) ==
    IF Len(controlPoints) < 2
    THEN WeightedPoint(<<1>>, 1, controlPoints, controlPoints[1][3])
    ELSE IF Len(controlPoints) = 2
    THEN WeightedPoint(<<n - i, i>>, n, controlPoints, CommonDenominator(controlPoints, 1))
    ELSE IF degree = 2 /\ Len(controlPoints) >= 3
    THEN WeightedPoint(<<(n - i) * (n - i), 2 * i * (n - i), i * i>>, n * n,
                       controlPoints, CommonDenominator(controlPoints, 1))
    ELSE IF degree = 3 /\ Len(controlPoints) >= 4
    THEN WeightedPoint(<<(n - i) * (n - i) * (n - i), 3 * i * (n - i) * (n - i),
                         3 * i * i * (n - i), i * i * i>>, n * n * n,
                       controlPoints, CommonDenominator(controlPoints, 1))
    ELSE WeightedPoint(<<n - i, i>>, n, controlPoints, CommonDenominator(controlPoints, 1))

\* the corner as a point of a curve
CornerPoint(corner) == << RatNorm(corner.x, Scale), RatNorm(corner.y, Scale) >>

\* p > q for rationals
RatAbove(p, q) == FractionGt(p[1], p[2], q[1], q[2])

\* the least (greatest) of coordinate xy of the polygon's points from
\* index k on and best
RECURSIVE LeastFrom(_, _, _, _)
LeastFrom(polygon, xy, k, best) ==
    IF k > Len(polygon) THEN best
    ELSE IF RatAbove(best, polygon[k][xy])
    THEN LeastFrom(polygon, xy, k + 1, polygon[k][xy])
    ELSE LeastFrom(polygon, xy, k + 1, best)

RECURSIVE GreatestFrom(_, _, _, _)
GreatestFrom(polygon, xy, k, best) ==
    IF k > Len(polygon) THEN best
    ELSE IF RatAbove(polygon[k][xy], best)
    THEN GreatestFrom(polygon, xy, k + 1, polygon[k][xy])
    ELSE GreatestFrom(polygon, xy, k + 1, best)

RatSub(p, q) == RatNorm(p[1] * q[2] - q[1] * p[2], p[2] * q[2])

\* Math.max(maxX - minX, maxY - minY) * 0.1
ExtentMargin(w, h) ==
    IF RatAbove(h, w) THEN RatNorm(h[1], 10 * h[2]) ELSE RatNorm(w[1], 10 * w[2])

\* the corners used as prevCorner and nextCorner for edge e (0..3) of a
\* cell, as indices from 1 into cell.corners
PrevCornerOf(e) == << 4, 1, 2, 3 >>[e + 1]
NextCornerOf(e) == << 3, 4, 1, 2 >>[e + 1]

\* the control points of edge e of the cell with corners q
EdgeControlPoints(q, e, s10) ==
    getSplineControlPoints(q[e + 1], q[((e + 1) % 4) + 1],
                           q[PrevCornerOf(e)], q[NextCornerOf(e)], s10)

\* const numSamples = 12
SplineSamples == 12

\* the polygon of getOrCreateSplineCache: the corners when splineSmoothness
\* < 0.001, otherwise numSamples points of each of the four edges
SplinePolygon(q, degree, s10) ==
    IF s10 = 0 THEN [k \in 1..4 |-> CornerPoint(q[k])]
    ELSE [k \in 1..(4 * SplineSamples) |->
            evaluateBSpline((k - 1) % SplineSamples, SplineSamples,
                            EdgeControlPoints(q, (k - 1) \div SplineSamples, s10), degree)]

\* minX, maxX, minY, maxY of the cache: the extremes of the polygon, widened
\* by the margin
SplineBounds(minX, maxX, minY, maxY, margin) ==
    [minX |-> RatSub(minX, margin), maxX |-> RatAdd(maxX, margin),
     minY |-> RatSub(minY, margin), maxY |-> RatAdd(maxY, margin)]

\* the bounds with the margin of a sampled polygon
WidenedBounds(minX, maxX, minY, maxY) ==
    SplineBounds(minX, maxX, minY, maxY,
                 ExtentMargin(RatSub(maxX, minX), RatSub(maxY, minY)))

\* the bounds of the cache for its polygon: no margin is added when
\* splineSmoothness < 0.001
PolygonBounds(polygon, s10) ==
    IF s10 = 0
    THEN SplineBounds(LeastFrom(polygon, 1, 2, polygon[1][1]),
                      GreatestFrom(polygon, 1, 2, polygon[1][1]),
                      LeastFrom(polygon, 2, 2, polygon[1][2]),
                      GreatestFrom(polygon, 2, 2, polygon[1][2]), RatZero)
    ELSE WidenedBounds(LeastFrom(polygon, 1, 2, polygon[1][1]),
                       GreatestFrom(polygon, 1, 2, polygon[1][1]),
                       LeastFrom(polygon, 2, 2, polygon[1][2]),
                       GreatestFrom(polygon, 2, 2, polygon[1][2]))

\* the cache object built for the corners q of a cell and their polygon
SplineCacheOf(q, polygon, degree, s10) ==
    [polygon          |-> polygon,
     bounds           |-> PolygonBounds(polygon, s10),
     centerX          |-> RatNorm(q[1].x + q[2].x + q[3].x + q[4].x, 4 * Scale),
     centerY          |-> RatNorm(q[1].y + q[2].y + q[3].y + q[4].y, 4 * Scale),
     radius           |-> RatNorm(Min(Abs((q[2].x - q[1].x) + (q[3].x - q[4].x)),
                                      Abs((q[4].y - q[1].y) + (q[3].y - q[2].y))), 4 * Scale),
     splineDegree     |-> degree,
     splineSmoothness |-> s10]

\* the object getOrCreateSplineCache builds from the corners q of a cell
NewSplineCache(q, degree, s10) ==
    SplineCacheOf(q, Stored(SplinePolygon(q, degree, s10)), degree, s10)

\* cell._splineCache of a cell that has none
NoCache == [splineDegree |-> 0]

\* getOrCreateSplineCache(cell, grid, splineDegree, splineSmoothness) for a
\* cell whose _splineCache is cached
getOrCreateSplineCache(g, cell, cached, degree, s10) ==
    IF cached # NoCache /\ cached.splineDegree = degree /\ cached.splineSmoothness = s10
    THEN cached
    ELSE NewSplineCache(CellCorners(g, cell), degree, s10)

----------------------------------------------------------------------------
(* Curved cells as a state machine: calls of optimizeGridCorners move the   *)
(* corners of a grid, and between the calls GridCell.getBounds is called    *)
(* on its cells with useSplines set.                                        *)

\* the grids of the curved cells: image width, height and gridSize
CellSizes == { <<4, 4, 2>> }

\* the edge maps of the curved cells: no edge, an edge along column 1 and
\* an edge along the last row
CellEdgeMaps(w, h) ==
    { [present |-> TRUE, data |-> EdgeMapOf(w, h, S)] :
        S \in { {},
                { i \in 0..(w * h - 1) : i % w = 1 },
                { i \in 0..(w * h - 1) : i \div w = h - 1 } } }

\* the options of the calls between the lookups: at edgeSharpness 0 and
\* numIterations 1 a corner moves half the way to its best position
CellOptions ==
    [ searchSteps   : {9},
      numIterations : {1},
      stepSize      : {1},
      edgeSharpness : {0} ]

\* splineDegree and splineSmoothness (in tenths) of the lookups: the
\* defaults 2 and 0.3 are a degree and a smoothness above 0.001; here 2, 3
\* and 0, 0.5
SplineDegrees == {2, 3}
SplineSmoothnessTenths == {0, 5}

CellsInit ==
    /\ StagesUnused
    /\ RenderUnused
    /\ \E sz \in CellSizes :
         /\ width = sz[1]
         /\ height = sz[2]
         /\ gridSize = sz[3]
         /\ grid = createInitialGrid(sz[1], sz[2], sz[3])
         /\ edgeMap \in CellEdgeMaps(sz[1], sz[2])
    /\ opts = DefaultOptions
    /\ pc = "idle"
    /\ iteration = 0
    /\ row = 0
    /\ col = 0
    /\ before = grid
    /\ calls = 0
    /\ passes = 0
    /\ returned = "none"

\* optimizeGridCorners(grid, edgeMap, width, height, options) on the grid
\* whose cells may hold a _splineCache
CellsOptimize == OptimizeCallFrom(CellOptions, MaxCalls)

\* the _splineCache of cell i (from 1): none until the first lookup
CacheOf(caches, i) == IF i \in DOMAIN caches THEN caches[i] ELSE NoCache

\* the cells looked up (from 1): the first and the last cell of the grid
CellsLookedUp(g) == {1, Len(g.cells)}

\* bounds = cell.getBounds(true, splineDegree, grid, splineSmoothness)
GetBounds ==
    /\ pc = "idle"
    /\ lookups < MaxLookups
    /\ \E i \in CellsLookedUp(grid), degree \in SplineDegrees, s10 \in SplineSmoothnessTenths :
         LET cache == getOrCreateSplineCache(grid, grid.cells[i], CacheOf(splineCache, i),
                                             degree, s10)
         IN /\ splineCache' = [k \in 1..Len(grid.cells) |->
                                 IF k = i THEN cache ELSE CacheOf(splineCache, k)]
            /\ lookup' = [fn |-> "getBounds", cell |-> i, splineDegree |-> degree,
                          splineSmoothness |-> s10, polygon |-> cache.polygon,
                          result |-> cache.bounds]
    /\ lookups' = lookups + 1
    /\ UNCHANGED <<optVars, renderVars, edgeCounts, stepVars, heapVars, pipeVars>>

CellsNext == CellsOptimize \/ OptimizeCorner \/ GetBounds

SpecCells == CellsInit /\ [][CellsNext]_vars

\* the cache object computed from the corners cell i has now
FreshCache(g, i, degree, s10) == NewSplineCache(CellCorners(g, g.cells[i]), degree, s10)

\* C29: after any interleaving of optimizeGridCorners calls and curved-cell
\* lookups, the polygon and the bounds a lookup returns from the cell's
\* cache are those computed from the cell's current corners and the degree
\* and smoothness asked for
C29_CacheNeverStale ==
    [][ lookups' # lookups =>
          /\ lookup'.polygon = FreshCache(grid', lookup'.cell, lookup'.splineDegree,
                                          lookup'.splineSmoothness).polygon
          /\ lookup'.result = FreshCache(grid', lookup'.cell, lookup'.splineDegree,
                                         lookup'.splineSmoothness).bounds ]_vars

----------------------------------------------------------------------------
(* The curves of the cell edges as a state machine: calls of               *)
(* optimizeGridCorners move the corners, and between the calls a point of  *)
(* the curve of an edge of a cell is evaluated.                            *)

\* the samples taken of a curve: t = i / numSamples at the first corner,
\* half way and at the second corner
SampleIndices == {0, SplineSamples \div 2, SplineSamples}

\* a control point as a point of a curve
PointOf(cp) == << RatNorm(cp[1], cp[3]), RatNorm(cp[2], cp[3]) >>

\* point = evaluateBSpline(t, controlPoints, splineDegree) for the control
\* points of edge e of cell i, as getOrCreateSplineCache and
\* evaluateEdgeAlignment compute a point of a curved edge; one point is
\* evaluated in a run
SampleEdgeCurve ==
    /\ pc = "idle"
    /\ lookups = 0
    /\ \E i \in 1..Len(grid.cells), e \in 0..3, degree \in SplineDegrees,
          s10 \in SplineSmoothnessTenths, j \in SampleIndices :
         LET controlPoints == EdgeControlPoints(CellCorners(grid, grid.cells[i]), e, s10)
         IN lookup' = [fn |-> "evaluateBSpline", cell |-> i, edge |-> e,
                       splineDegree |-> degree, splineSmoothness |-> s10,
                       i |-> j, numSamples |-> SplineSamples,
                       controlPoints |-> controlPoints,
                       result |-> evaluateBSpline(j, SplineSamples, controlPoints, degree)]
    /\ lookups' = lookups + 1
    /\ UNCHANGED <<optVars, renderVars, edgeCounts, stepVars, heapVars, pipeVars, splineCache>>

CurvesNext == CellsOptimize \/ OptimizeCorner \/ SampleEdgeCurve

SpecCurves == CellsInit /\ [][CurvesNext]_vars

\* the edges <<k, f>> of other cells that join the two corners of edge e of
\* cell i: the same edge of the grid, seen from the adjacent cell
SharedEdges(g, i, e) ==
    { kf \in (1..Len(g.cells)) \X (0..3) :
        /\ kf[1] # i
        /\ { g.cells[kf[1]].corners[kf[2] + 1], g.cells[kf[1]].corners[((kf[2] + 1) % 4) + 1] }
             = { g.cells[i].corners[e + 1], g.cells[i].corners[((e + 1) % 4) + 1] } }

\* the point at t = j / n of edge f of cell k, taken from the corner the
\* curve of the adjacent cell starts at
MirroredPoint(g, k, f, j, n, degree, s10) ==
    evaluateBSpline(n - j, n, EdgeControlPoints(CellCorners(g, g.cells[k]), f, s10), degree)

\* C23: for every pair of adjacent cells the curve of their shared edge is
\* the same whichever cell it is computed from: the same control point and
\* the same sampled points, for any corner positions and smoothness
C23_SharedEdgeSameCurve ==
    [][ (lookups' # lookups /\ lookup'.fn = "evaluateBSpline") =>
          \A kf \in SharedEdges(grid', lookup'.cell, lookup'.edge) :
             /\ PointOf(EdgeControlPoints(CellCorners(grid', grid'.cells[kf[1]]), kf[2],
                                          lookup'.splineSmoothness)[2])
                  = PointOf(lookup'.controlPoints[2])
             /\ MirroredPoint(grid', kf[1], kf[2], lookup'.i, lookup'.numSamples,
                              lookup'.splineDegree, lookup'.splineSmoothness)
                  = lookup'.result ]_vars

\* C24: for degree 2 and degree 3 the curve of an edge passes through its
\* two corners: at t = 0 it is the first corner, at t = 1 the second, for
\* any control points of getSplineControlPoints
C24_CurveThroughCorners ==
    lookup.fn = "evaluateBSpline" =>
        /\ lookup.i = 0 => lookup.result = PointOf(lookup.controlPoints[1])
        /\ lookup.i = lookup.numSamples =>
              lookup.result = PointOf(lookup.controlPoints[Len(lookup.controlPoints)])

============================================================================
